---------------------------- MODULE Spec2Model ----------------------------
(***************************************************************************)
(* A model of the hybrid retrieval and ranking pipeline of the RAG service: *)
(* score fusion (utils/fusion_score.py, utils/search_fusion_service.py),    *)
(* the hybrid search orchestrator (utils/hybrid_search.py), the LLM         *)
(* reranker (utils/llm_reranker.py) and the retrieve tool (server.py).      *)
(*                                                                         *)
(* Scores are Python floats in the code; here they are exact rationals      *)
(* [n, d] in lowest terms, so equality and order of scores are those of     *)
(* the real numbers the floats approximate.  Result objects are mutable     *)
(* and shared by reference in the code: they live in `heap` and lists hold  *)
(* object identifiers.                                                      *)
(***************************************************************************)
EXTENDS Integers, Sequences, FiniteSets, TLC

(***************************************************************************)
(* Bounds of the model.                                                     *)
(***************************************************************************)
NObj == 3
MaxScore == 2

(***************************************************************************)
(* Sequence helpers.                                                        *)
(***************************************************************************)
Range(s) == { s[i] : i \in DOMAIN s }

Take(s, n) == IF n >= Len(s) THEN s ELSE SubSeq(s, 1, n)

Min2(a, b) == IF a <= b THEN a ELSE b

RECURSIVE SumSeq(_)
SumSeq(s) == IF s = << >> THEN 0 ELSE Head(s) + SumSeq(Tail(s))

(***************************************************************************)
(* Exact rational arithmetic for scores and weights.                        *)
(***************************************************************************)
Abs(x) == IF x < 0 THEN -x ELSE x

RECURSIVE GCD(_, _)
GCD(a, b) == IF b = 0 THEN a ELSE GCD(b, a % b)

Rat(n, d) ==
    LET g == GCD(Abs(n), Abs(d))
        s == IF d < 0 THEN -1 ELSE 1
    IN  [n |-> (s * n) \div g, d |-> (s * d) \div g]

RInt(k) == [n |-> k, d |-> 1]
RZero == RInt(0)
ROne == RInt(1)
RAdd(a, b) == Rat(a.n * b.d + b.n * a.d, a.d * b.d)
RSub(a, b) == Rat(a.n * b.d - b.n * a.d, a.d * b.d)
RMul(a, b) == Rat(a.n * b.n, a.d * b.d)
RDiv(a, b) == Rat(a.n * b.d, a.d * b.n)
RLess(a, b) == a.n * b.d < b.n * a.d
RLeq(a, b) == a.n * b.d <= b.n * a.d

RECURSIVE RSum(_)
RSum(s) == IF s = << >> THEN RZero ELSE RAdd(Head(s), RSum(Tail(s)))

RECURSIVE RMaxSeq(_)
RMaxSeq(s) ==
    IF Len(s) = 1 THEN s[1]
    ELSE LET m == RMaxSeq(Tail(s)) IN IF RLess(Head(s), m) THEN m ELSE Head(s)

RECURSIVE RMinSeq(_)
RMinSeq(s) ==
    IF Len(s) = 1 THEN s[1]
    ELSE LET m == RMinSeq(Tail(s)) IN IF RLess(m, Head(s)) THEN m ELSE Head(s)

(***************************************************************************)
(* State.                                                                   *)
(***************************************************************************)
VARIABLES
    heap,          \* object id -> result object (payload fields, score, tag)
    heap0,         \* the heap as it was before the first fusion call
    dense,         \* first result group (object ids)
    sparse,        \* second result group (object ids)
    dense_weight,  \* weight of the first group
    hash_seed,     \* the process's string-hash seed (fixes set iteration order)
    runs           \* fusion calls made so far: <<[op, method, out]>>

fusionVars == <<heap, heap0, dense, sparse, dense_weight, hash_seed, runs>>

\* HybridSearchService.perform_hybrid_search: one call and its environment
VARIABLES
    backend,        \* collection id -> what its Qdrant collection answers
    collection_ids, \* the collection_ids argument
    limit,          \* the limit argument
    normalization,  \* the normalization argument
    fusion_method,  \* the fusion_method argument
    hs_pc,          \* where the call is: "embed", "gather", "done", "raised"
    task,           \* collection id -> "pending", "running", "done"
    overtime,       \* collection id -> its search ran longer than SEARCH_TIMEOUT
    gathered,       \* collection id -> the list its search task returned
    completion,     \* collection ids in the order their tasks completed
    hs_out,         \* the list perform_hybrid_search returned
    queries         \* the queries sent to Qdrant so far, in order

hybridVars == <<backend, collection_ids, limit, normalization, fusion_method,
                hs_pc, task, overtime, gathered, completion, hs_out,
                queries>>

\* LLMRerankerService.rerank_results: one call
VARIABLES
    rr_pc,          \* where the call is: "batches", "done"
    rr_heap,        \* candidate object -> its payload and attributes
    candidates,     \* the candidates argument
    rr_limit,       \* the limit argument
    scored_results, \* _batch_process_candidates: <<[obj, score]>> so far
    batch_log,      \* per batch processed: whether it timed out, LLM outcomes
    rr_path,        \* how the call ended: "empty", "success", "fallback"
    rr_out          \* the list rerank_results returned

rerankVars == <<rr_pc, rr_heap, candidates, rr_limit, scored_results,
                batch_log, rr_path, rr_out>>

\* the retrieve tool: one call
VARIABLES
    rt_server,      \* which server module: "mcps" or "legacy"
    rt_args,        \* the arguments of the call
    rt_flags,       \* ENABLE_QUERY_EXPANSION, ENABLE_LLM_RERANKING
    rt_pc,          \* where the call is
    rt_results,     \* the results in hand
    rt_calls,       \* collaborators called so far
    rt_ret          \* what the call gave its caller

retrieveVars == <<rt_server, rt_args, rt_flags, rt_pc, rt_results, rt_calls, rt_ret>>

\* fusion across query variants: one call
VARIABLES
    qv_pc,               \* where the call is: "ready", "done"
    qv_heap,             \* object id -> result object
    qv_heap0,            \* the heap as it was when the call was made
    results_by_variant,  \* the argument: one list of object ids per variant
    qv_op,               \* which function was called, and with which method
    normalized_variants, \* per variant, the normalized score of each entry
    qv_out               \* the <<[obj, score]>> pairs the call returned

variantVars == <<qv_pc, qv_heap, qv_heap0, results_by_variant, qv_op,
                 normalized_variants, qv_out>>

\* perform_query_expansion_retrieval: one call and its environment
VARIABLES
    qe_env,            \* fusion method, limit, which collections have a
                       \* vectorizer, which hold chunks of the user,
                       \* whether the embedding model answers
    qe_pc,             \* where the call is
    llm_response,      \* what the LLM client did when asked for variants
    query_variants,    \* what generate_query_variants returned
    qe_heap,           \* object id -> result object
    results_by_query,  \* one list of object ids per query searched so far
    top_results,       \* the list handed to format_results_response
    qe_ret,            \* what the call gave its caller
    gv_call,           \* the last direct call of the expansion service:
                       \* its inputs, its result, the metrics before it
    expansion_metrics  \* the module's global metrics dict

qeCallVars == <<qe_env, qe_pc, llm_response, query_variants, qe_heap,
                results_by_query, top_results, qe_ret, gv_call>>

expansionVars == <<qeCallVars, expansion_metrics>>

vars == <<fusionVars, hybridVars, rerankVars, retrieveVars, variantVars,
          expansionVars>>

\* what each subsystem's steps leave alone
outsideFusion == <<hybridVars, rerankVars, retrieveVars, variantVars,
                   expansionVars>>
outsideHybrid == <<rerankVars, retrieveVars, variantVars, expansionVars>>
outsideRerank == <<fusionVars, hybridVars, retrieveVars, variantVars,
                   expansionVars>>
outsideRetrieve == <<fusionVars, hybridVars, rerankVars, variantVars,
                     expansionVars>>
outsideVariants == <<fusionVars, hybridVars, rerankVars, retrieveVars,
                     expansionVars>>
outsideExpansion == <<fusionVars, hybridVars, rerankVars, retrieveVars,
                      variantVars>>

(***************************************************************************)
(* Result objects.  A point of a collection carries the payload fields      *)
(* document_id and chunk_id; its vector-store id is a fresh uuid per        *)
(* upserted point, so it is determined by (collection, document, chunk).    *)
(***************************************************************************)
PointId(coll, doc, chunk) == <<coll, doc, chunk>>

NewResult(coll, doc, chunk, score) ==
    [id |-> PointId(coll, doc, chunk), doc |-> doc, chunk |-> chunk,
     coll |-> coll, score |-> score, tag |-> 0]

\* stable sort of <<[obj, score]>> by score, descending
\* (list.sort(key=score, reverse=True) keeps equal elements in input order)
RECURSIVE InsertDesc(_, _)
InsertDesc(sorted, x) ==
    IF sorted = << >> THEN <<x>>
    ELSE IF RLess(Head(sorted).score, x.score) THEN <<x>> \o sorted
    ELSE <<Head(sorted)>> \o InsertDesc(Tail(sorted), x)

RECURSIVE SortDesc(_)
SortDesc(s) ==
    IF s = << >> THEN << >>
    ELSE InsertDesc(SortDesc(SubSeq(s, 1, Len(s) - 1)), s[Len(s)])

Objs(pairs) == [i \in DOMAIN pairs |-> pairs[i].obj]

Scores(h, list) == [i \in DOMAIN list |-> h[list[i]].score]

(***************************************************************************)
(* FusionService (utils/fusion_score.py).                                   *)
(***************************************************************************)
\* NormalizationMethod has the single member MIN_MAX; any other value falls
\* back to min-max as well.
normalize_scores(scores) ==
    IF scores = << >> THEN << >>
    ELSE LET mx == RMaxSeq(scores)
             mn == RMinSeq(scores)
         IN  IF mx = mn THEN [i \in DOMAIN scores |-> ROne]
             ELSE [i \in DOMAIN scores |-> RDiv(RSub(scores[i], mn), RSub(mx, mn))]

\* md5 of "<document_id>_<chunk_id>", taken to be injective on the pair
create_result_hash(r) == <<r.doc, r.chunk>>

\* dict semantics shared by the fusion methods: items are <<[obj, hash, val]>>
\* in processing order; keys keep first-insertion order, values add up, and
\* the object kept for a key is the last one seen.
RECURSIVE FirstSeen(_, _)
FirstSeen(items, acc) ==
    IF items = << >> THEN acc
    ELSE FirstSeen(Tail(items),
                   IF Head(items).hash \in Range(acc) THEN acc
                   ELSE Append(acc, Head(items).hash))

RECURSIVE TotalFor(_, _)
TotalFor(items, k) ==
    IF items = << >> THEN RZero
    ELSE IF Head(items).hash = k
         THEN RAdd(Head(items).val, TotalFor(Tail(items), k))
         ELSE TotalFor(Tail(items), k)

LastObjFor(items, k) ==
    LET last == CHOOSE i \in DOMAIN items :
                    /\ items[i].hash = k
                    /\ \A j \in DOMAIN items : items[j].hash = k => j <= i
    IN  items[last].obj

\* result_obj.score = final_score for every fused entry
StoreScores(h, final) ==
    [o \in DOMAIN h |->
        IF \E i \in DOMAIN final : final[i].obj = o
        THEN [h[o] EXCEPT !.score =
                 final[CHOOSE i \in DOMAIN final : final[i].obj = o].score]
        ELSE h[o]]

Accumulate(h, items) ==
    LET keys == FirstSeen(items, << >>)
        final == [i \in DOMAIN keys |->
                     [obj |-> LastObjFor(items, keys[i]),
                      score |-> TotalFor(items, keys[i])]]
    IN  [out |-> Objs(SortDesc(final)), h |-> StoreScores(h, final)]

RECURSIVE Flatten(_)
Flatten(ss) == IF ss = << >> THEN << >> ELSE Head(ss) \o Flatten(Tail(ss))

AnyNonEmpty(groups) == \E g \in DOMAIN groups : groups[g] # << >>

\* weights = << >> stands for weights=None
weighted_fusion(h, groups, weights) ==
    IF ~AnyNonEmpty(groups) THEN [out |-> << >>, h |-> h]
    ELSE
    LET w0 == IF Len(weights) # Len(groups)
              THEN [g \in DOMAIN groups |-> ROne] ELSE weights
        total == RSum(w0)
        w == [g \in DOMAIN groups |-> RDiv(w0[g], total)]
        GroupItems(g) ==
            LET ns == normalize_scores(Scores(h, groups[g]))
            IN  [i \in DOMAIN groups[g] |->
                    [obj |-> groups[g][i],
                     hash |-> create_result_hash(h[groups[g][i]]),
                     val |-> RMul(w[g], ns[i])]]
    IN  Accumulate(h, Flatten([g \in DOMAIN groups |-> GroupItems(g)]))

reciprocal_rank_fusion(h, groups, k) ==
    IF ~AnyNonEmpty(groups) THEN [out |-> << >>, h |-> h]
    ELSE
    LET GroupItems(g) ==
            [i \in DOMAIN groups[g] |->
                [obj |-> groups[g][i],
                 hash |-> create_result_hash(h[groups[g][i]]),
                 val |-> Rat(1, i + k)]]
    IN  Accumulate(h, Flatten([g \in DOMAIN groups |-> GroupItems(g)]))

RRF_K == 60

FusionMethods == {"weighted", "reciprocal_rank_fusion", "max_score"}

fuse_results(h, groups, method, weights) ==
    IF method = "weighted" THEN weighted_fusion(h, groups, weights)
    ELSE IF method = "reciprocal_rank_fusion"
         THEN reciprocal_rank_fusion(h, groups, RRF_K)
    ELSE weighted_fusion(h, groups, weights)

\* mutant: the two weights handed over in the wrong order
fuse_dense_sparse_swapped(h, dense_results, sparse_results, dw, method) ==
    fuse_results(h, <<dense_results, sparse_results>>, method,
                 <<RSub(ROne, dw), dw>>)

fuse_dense_sparse(h, dense_results, sparse_results, dw, method) ==
    fuse_results(h, <<dense_results, sparse_results>>, method,
                 <<dw, RSub(ROne, dw)>>)

(***************************************************************************)
(* SearchFusionService (utils/search_fusion_service.py): the dense/sparse   *)
(* fusion keyed by the vector-store point id.                               *)
(***************************************************************************)
\* Iteration order of a Python set of point ids.  It is fixed for a process
\* but depends on the hash seed; the two seeds of the model give every pair
\* of ids both relative orders.
IdRank(id) == id[1] * 100 + id[2] * 10 + id[3]

RECURSIVE SetOrder(_, _)
SetOrder(S, seed) ==
    IF S = {} THEN << >>
    ELSE LET x == CHOOSE y \in S : \A z \in S :
                      IF seed = 1 THEN IdRank(y) <= IdRank(z)
                      ELSE IdRank(y) >= IdRank(z)
         IN  <<x>> \o SetOrder(S \ {x}, seed)

\* {r.id: (score, r) for r, score in zip(results, scores)}: the last entry
\* of an id wins
IdMapGet(h, results, scores, id) ==
    LET last == CHOOSE i \in DOMAIN results :
                    /\ h[results[i]].id = id
                    /\ \A j \in DOMAIN results : h[results[j]].id = id => j <= i
    IN  [score |-> scores[last], obj |-> results[last]]

IdKeys(h, results) == { h[results[i]].id : i \in DOMAIN results }

search_weighted_fusion(h, dense_results, sparse_results, dw, seed) ==
    IF dense_results = << >> /\ sparse_results = << >>
    THEN [out |-> << >>, h |-> h]
    ELSE
    LET sw == RSub(ROne, dw)
        dense_scores == normalize_scores(Scores(h, dense_results))
        sparse_scores == normalize_scores(Scores(h, sparse_results))
        dkeys == IdKeys(h, dense_results)
        skeys == IdKeys(h, sparse_results)
        all_ids == SetOrder(dkeys \cup skeys, seed)
        Entry(id) ==
            LET ds == IF id \in dkeys
                      THEN IdMapGet(h, dense_results, dense_scores, id).score
                      ELSE RZero
                ss == IF id \in skeys
                      THEN IdMapGet(h, sparse_results, sparse_scores, id).score
                      ELSE RZero
                \* result_obj = dense_result or sparse_result
                obj == IF id \in dkeys
                       THEN IdMapGet(h, dense_results, dense_scores, id).obj
                       ELSE IdMapGet(h, sparse_results, sparse_scores, id).obj
            IN  [obj |-> obj, score |-> RAdd(RMul(dw, ds), RMul(sw, ss))]
        combined == [i \in DOMAIN all_ids |-> Entry(all_ids[i])]
    IN  [out |-> Objs(SortDesc(combined)), h |-> StoreScores(h, combined)]

(***************************************************************************)
(* The fusion operations as calls on two result groups.  Every backend      *)
(* result list holds each point once and is sorted by descending score.     *)
(***************************************************************************)
MaxRuns == 2

KeyMenu ==
    { [coll |-> 1, doc |-> 1, chunk |-> 1],
      [coll |-> 2, doc |-> 1, chunk |-> 1],
      [coll |-> 1, doc |-> 2, chunk |-> 1] }

\* FusionService(default_dense_weight=0.6)
DEFAULT_DENSE_WEIGHT == Rat(3, 5)

Weights == { DEFAULT_DENSE_WEIGHT, Rat(1, 4) }

\* 0: no set has been iterated yet
HashSeeds == {1, 2}

DistinctPoints(h, list) ==
    \A i, j \in DOMAIN list : h[list[i]].id = h[list[j]].id => i = j

SortedDesc(h, list) ==
    \A i \in 1..(Len(list) - 1) : RLeq(h[list[i + 1]].score, h[list[i]].score)

\* the expansion service has not been called directly
NoCall == [fn |-> "none"]

\* expansion_metrics as the module creates it; fusion_method_usage is a
\* defaultdict(int), here the function of the keys it holds
ZeroMetrics ==
    [queries_expanded |-> 0,
     variants_generated |-> 0,
     deduplication_savings |-> 0,
     average_expansion_time |-> RZero,
     fusion_method_usage |-> [k \in {} |-> 0],
     total_expansion_time |-> RZero,
     successful_expansions |-> 0,
     failed_expansions |-> 0]

\* no expansion retrieval is in progress
ExpansionIdle ==
    /\ gv_call = NoCall
    /\ expansion_metrics = ZeroMetrics
    /\ qe_env = << >>
    /\ qe_pc = "idle"
    /\ llm_response = << >>
    /\ query_variants = << >>
    /\ qe_heap = << >>
    /\ results_by_query = << >>
    /\ top_results = << >>
    /\ qe_ret = << >>

\* no fusion across query variants is in progress
VariantsIdle ==
    /\ qv_pc = "idle"
    /\ qv_heap = << >>
    /\ qv_heap0 = << >>
    /\ results_by_variant = << >>
    /\ qv_op = [fn |-> "none", method |-> "none"]
    /\ normalized_variants = << >>
    /\ qv_out = << >>

\* no rerank call is in progress
RerankIdle ==
    /\ rr_pc = "idle"
    /\ rr_heap = << >>
    /\ candidates = << >>
    /\ rr_limit = 0
    /\ scored_results = << >>
    /\ batch_log = << >>
    /\ rr_path = "none"
    /\ rr_out = << >>

\* no retrieve call is in progress
RetrieveIdle ==
    /\ rt_server = "none"
    /\ rt_args = << >>
    /\ rt_flags = << >>
    /\ rt_pc = "idle"
    /\ rt_results = << >>
    /\ rt_calls = {}
    /\ rt_ret = << >>

\* no hybrid search is in progress
HybridIdle ==
    /\ backend = << >>
    /\ collection_ids = << >>
    /\ limit = 0
    /\ normalization = "min_max"
    /\ fusion_method = "weighted"
    /\ hs_pc = "idle"
    /\ task = << >>
    /\ overtime = << >>
    /\ gathered = << >>
    /\ completion = << >>
    /\ hs_out = << >>
    /\ queries = << >>

InitFusion ==
    \E n \in 0..NObj :
      \E keys \in [1..n -> KeyMenu], sc \in [1..n -> 0..MaxScore], nd \in 0..n :
        LET h == [o \in 1..n |->
                     NewResult(keys[o].coll, keys[o].doc, keys[o].chunk, RInt(sc[o]))]
            d == [i \in 1..nd |-> i]
            s == [i \in 1..(n - nd) |-> nd + i]
        IN  /\ DistinctPoints(h, d) /\ DistinctPoints(h, s)
            /\ SortedDesc(h, d) /\ SortedDesc(h, s)
            /\ heap = h
            /\ heap0 = h
            /\ dense = d
            /\ sparse = s
    /\ dense_weight = DEFAULT_DENSE_WEIGHT
    /\ hash_seed = 0
    /\ runs = << >>
    /\ HybridIdle /\ RerankIdle /\ RetrieveIdle /\ VariantsIdle
    /\ ExpansionIdle

\* the next call: any operation first, then the same operation with the same
\* arguments once more, on the objects the first call left behind
MayCall(op, method, dw, seed) ==
    /\ Len(runs) < MaxRuns
    /\ runs # << >> =>
          /\ runs[1].op = op /\ runs[1].method = method
          /\ dw = dense_weight /\ seed = hash_seed

Record(op, method, dw, seed, res) ==
    /\ heap' = res.h
    /\ runs' = Append(runs, [op |-> op, method |-> method, out |-> res.out])
    /\ dense_weight' = dw
    /\ hash_seed' = seed
    /\ UNCHANGED <<heap0, dense, sparse>>
    /\ UNCHANGED outsideFusion

CallWeightedFusion ==
    /\ MayCall("weighted_fusion", "weighted", dense_weight, hash_seed)
    /\ Record("weighted_fusion", "weighted", dense_weight, hash_seed,
              weighted_fusion(heap, <<dense, sparse>>, << >>))

CallReciprocalRankFusion ==
    /\ MayCall("reciprocal_rank_fusion", "reciprocal_rank_fusion",
               dense_weight, hash_seed)
    /\ Record("reciprocal_rank_fusion", "reciprocal_rank_fusion",
              dense_weight, hash_seed,
              reciprocal_rank_fusion(heap, <<dense, sparse>>, RRF_K))

CallFuseDenseSparse ==
    \E method \in FusionMethods, dw \in Weights :
        /\ MayCall("fuse_dense_sparse", method, dw, hash_seed)
        /\ Record("fuse_dense_sparse", method, dw, hash_seed,
                  fuse_dense_sparse(heap, dense, sparse, dw, method))

CallSearchWeightedFusion ==
    \E dw \in Weights, seed \in HashSeeds :
        /\ MayCall("search_weighted_fusion", "weighted", dw, seed)
        /\ Record("search_weighted_fusion", "weighted", dw, seed,
                  search_weighted_fusion(heap, dense, sparse, dw, seed))

NextFusion ==
    \/ CallWeightedFusion
    \/ CallReciprocalRankFusion
    \/ CallFuseDenseSparse
    \/ CallSearchWeightedFusion

SpecFusion == InitFusion /\ [][NextFusion]_vars

(***************************************************************************)
(* Claims about the fusion operations (checked under SpecFusion).           *)
(***************************************************************************)
FirstCallIs(op) == Len(runs) >= 1 /\ runs[1].op = op

EmptySparseCall ==
    /\ Len(runs) = 1
    /\ runs[1].op = "fuse_dense_sparse"
    /\ dense # << >>
    /\ sparse = << >>

DistinctKeys(h, list) ==
    \A i, j \in DOMAIN list :
        (h[list[i]].doc = h[list[j]].doc /\ h[list[i]].chunk = h[list[j]].chunk)
            => i = j

\* C1 as stated: fuse_dense_sparse with a non-empty dense list and an empty
\* sparse list returns exactly the dense results, in the same order and with
\* every score unchanged.
C1_EmptySparseReturnsDenseUnchanged ==
    EmptySparseCall =>
        /\ runs[1].out = dense
        /\ \A i \in DOMAIN dense : heap[dense[i]].score = heap0[dense[i]].score

\* (s - min) / (max - min) of the i-th score, 1 when all scores are equal
MinMaxAt(scores, i) ==
    LET mx == CHOOSE a \in Range(scores) : \A b \in Range(scores) : RLeq(b, a)
        mn == CHOOSE a \in Range(scores) : \A b \in Range(scores) : RLeq(a, b)
    IN  IF mx = mn THEN ROne
        ELSE Rat((scores[i].n * mn.d - mn.n * scores[i].d) * mx.d * mn.d,
                 (mx.n * mn.d - mn.n * mx.d) * scores[i].d * mn.d)

\* C1 amended: fuse_dense_sparse with a non-empty dense list (sorted by
\* descending score, one entry per document_id + chunk_id) and an empty sparse
\* list returns exactly the dense result objects in the same order, but not
\* with their scores unchanged: under the weighted (and max_score) method each
\* score becomes dense_weight times its min-max normalised score, under
\* reciprocal_rank_fusion it becomes 1 / (rank + 60).
C1_EmptySparseReturnsDenseRescored ==
    (EmptySparseCall /\ DistinctKeys(heap0, dense)) =>
        /\ runs[1].out = dense
        /\ \A i \in DOMAIN dense :
              heap[dense[i]] =
                 [heap0[dense[i]] EXCEPT !.score =
                     IF runs[1].method = "reciprocal_rank_fusion"
                     THEN Rat(1, i + 60)
                     ELSE RMul(dense_weight, MinMaxAt(Scores(heap0, dense), i))]

C1_Witness ==
    /\ EmptySparseCall
    /\ DistinctKeys(heap0, dense)
    /\ Len(dense) >= 2
    /\ heap0[dense[1]].score # heap0[dense[2]].score
    /\ runs[1].method = "weighted"

\* C2: weighted_fusion run twice on the same two ranked lists (the same
\* result objects) with the same weights gives the same output ordering both
\* times.
C2_WeightedFusionTwiceSameOrder ==
    (Len(runs) >= 2 /\ runs[1].method = "weighted") => runs[2].out = runs[1].out

\* C3: in every fusion operation two results with the same document_id and
\* chunk_id but different collections are merged into one output entry, and
\* two results with the same chunk_id but different document_id stay two
\* distinct output entries.
SameChunk(x, y) == heap0[x].doc = heap0[y].doc /\ heap0[x].chunk = heap0[y].chunk

C3_DedupByDocumentAndChunk ==
    Len(runs) = 1 =>
        LET inp == Range(dense) \cup Range(sparse)
            out == Range(runs[1].out)
        IN  \A x, y \in inp :
              /\ (SameChunk(x, y) /\ heap0[x].coll # heap0[y].coll) =>
                    Cardinality({o \in out : SameChunk(o, x)}) = 1
              /\ (heap0[x].chunk = heap0[y].chunk /\ heap0[x].doc # heap0[y].doc) =>
                    \E ox, oy \in out :
                        ox # oy /\ SameChunk(ox, x) /\ SameChunk(oy, y)

\* the key a fusion operation merges results by
FusionKey(op, r) == IF op = "search_weighted_fusion" THEN r.id
                    ELSE create_result_hash(r)

\* where the candidate of output object o first occurs in the inputs, first
\* list first
FirstOccurrence(op, o) ==
    LET inputs == dense \o sparse
    IN  CHOOSE i \in DOMAIN inputs :
            /\ FusionKey(op, heap0[inputs[i]]) = FusionKey(op, heap0[o])
            /\ \A j \in 1..(i - 1) :
                   FusionKey(op, heap0[inputs[j]]) # FusionKey(op, heap0[o])

\* C23: the output of every fusion call is in order of non-increasing final
\* score, and candidates with equal final scores are in the order of their
\* first occurrence in the inputs (first list first, then position).
C23_SortedTiesInInputOrder ==
    Len(runs) = 1 =>
        LET out == runs[1].out
            op == runs[1].op
        IN  /\ SortedDesc(heap, out)
            /\ \A i, j \in DOMAIN out :
                   (i < j /\ heap[out[i]].score = heap[out[j]].score) =>
                       FirstOccurrence(op, out[i]) < FirstOccurrence(op, out[j])

(***************************************************************************)
(* HybridSearchService (utils/hybrid_search.py).  perform_hybrid_search      *)
(* embeds the query, hands one _search_collection_parallel coroutine per    *)
(* collection to asyncio.gather, and sorts what gather returns.  The event  *)
(* loop starts and resumes the coroutines in any order.                     *)
(***************************************************************************)
MaxColl == 2
MaxLimit == 2

\* config.py; hybrid_search.py reads neither it nor SEARCH_TIMEOUT
MAX_CONCURRENT_SEARCHES == 5

\* class NormalizationMethod(Enum) and class FusionMethod(Enum)
NormalizationMethodValues == {"min_max"}
FusionMethodValues == FusionMethods

\* object ids of the points a collection answers with: a fresh object per
\* returned point, the dense response first
DenseObj(c, k) == 10 * c + k
SparseObj(c, k) == 10 * c + 5 + k

DenseObjs(c) == [k \in DOMAIN backend[c].dense |-> DenseObj(c, k)]
SparseObjs(c) == [k \in DOMAIN backend[c].sparse |-> SparseObj(c, k)]

\* DenseSearchService.search_collection(limit=limit * 2): [] on any error
_perform_dense_search(c, lim) ==
    IF backend[c].dense_error THEN << >> ELSE Take(DenseObjs(c), lim * 2)

\* TfidfService.query_to_sparse_vector: None without a vectorizer, else the
\* SparseVector of the query's non-zero TF-IDF entries
query_to_sparse_vector(c) ==
    IF ~backend[c].vectorizer
    THEN [none |-> TRUE, indices |-> << >>]
    ELSE [none |-> FALSE,
          indices |-> [k \in 1..backend[c].query_terms |-> k]]

\* if sparse_vector and sparse_vector.indices: query_points(limit=limit * 2),
\* [] when the query fails; else no query and []
_perform_sparse_search(c, lim) ==
    LET sparse_vector == query_to_sparse_vector(c)
    IN  IF ~sparse_vector.none /\ sparse_vector.indices # << >>
        THEN IF backend[c].sparse_error THEN << >>
             ELSE Take(SparseObjs(c), lim * 2)
        ELSE << >>

\* a query sent to the Qdrant client
Query(c, using, lim) == [collection |-> c, using |-> using, limit |-> lim]

\* qdrant_client.search(query_vector=("text_dense", ...), limit=limit) with
\* limit = limit * 2 from _perform_dense_search
dense_queries(c, lim) == <<Query(c, "text_dense", lim * 2)>>

\* qdrant_client.query_points(using="text_sparse", limit=limit * 2), sent
\* only for a sparse vector that has entries
sparse_queries(c, lim) ==
    LET sparse_vector == query_to_sparse_vector(c)
    IN  IF ~sparse_vector.none /\ sparse_vector.indices # << >>
        THEN <<Query(c, "text_sparse", lim * 2)>>
        ELSE << >>

\* result._collection_id = collection_id
TagCollection(h, list, c) ==
    [o \in DOMAIN h |-> IF o \in Range(list) THEN [h[o] EXCEPT !.tag = c] ELSE h[o]]

\* mutant: a failed sub-search makes the whole collection come back empty
_search_collection_parallel_all_or_nothing(h, c, lim, dw, norm, method) ==
    LET dense_results == _perform_dense_search(c, lim)
        sparse_results == _perform_sparse_search(c, lim)
    IN  IF backend[c].dense_error \/ backend[c].sparse_error
        THEN [out |-> << >>, h |-> h]
        ELSE IF sparse_results # << >>
        THEN IF norm \notin NormalizationMethodValues \/ method \notin FusionMethodValues
             THEN [out |-> << >>, h |-> h]
             ELSE LET f == fuse_dense_sparse(h, dense_results, sparse_results, dw, method)
                  IN  [out |-> f.out, h |-> TagCollection(f.h, f.out, c)]
        ELSE [out |-> dense_results, h |-> TagCollection(h, dense_results, c)]

_search_collection_parallel(h, c, lim, dw, norm, method) ==
    LET dense_results == _perform_dense_search(c, lim)
        sparse_results == _perform_sparse_search(c, lim)
    IN  IF sparse_results # << >>
        THEN IF norm \notin NormalizationMethodValues \/ method \notin FusionMethodValues
             THEN \* ValueError from the enum constructor, caught: return []
                  [out |-> << >>, h |-> h]
             ELSE LET f == fuse_dense_sparse(h, dense_results, sparse_results, dw, method)
                  IN  [out |-> f.out, h |-> TagCollection(f.h, f.out, c)]
        ELSE [out |-> dense_results, h |-> TagCollection(h, dense_results, c)]

\* a gather that hands back results as they arrive
gather_results_as_completed(ids, finished, res) ==
    [i \in DOMAIN finished |-> res[finished[i]]]

\* asyncio.gather returns the results in the order of its arguments
gather_results(ids, finished, res) == [i \in DOMAIN ids |-> res[ids[i]]]

\* mutant: the merged list is cut without being sorted
RankAndCutUnsorted(h, lists, lim) == Take(Flatten(lists), lim)

\* all_results.extend(...); all_results.sort(key=score, reverse=True); [:limit]
RankAndCut(h, lists, lim) ==
    LET all_results == Flatten(lists)
        pairs == [i \in DOMAIN all_results |->
                     [obj |-> all_results[i], score |-> h[all_results[i]].score]]
    IN  Take(Objs(SortDesc(pairs)), lim)

\* what the Qdrant collection of one user can answer a query with
Hit(chunk, score) == [chunk |-> chunk, score |-> score]

BackendMenu ==
    { \* dense and sparse hits: the fused path
      [dense |-> <<Hit(1, 2), Hit(2, 1)>>, sparse |-> <<Hit(2, 2), Hit(1, 1)>>,
       vectorizer |-> TRUE, query_terms |-> 1,
       dense_error |-> FALSE, sparse_error |-> FALSE],
      \* no TF-IDF vectorizer trained: dense only
      [dense |-> <<Hit(1, 2)>>, sparse |-> << >>,
       vectorizer |-> FALSE, query_terms |-> 0,
       dense_error |-> FALSE, sparse_error |-> FALSE],
      \* the dense query fails
      [dense |-> <<Hit(1, 2)>>, sparse |-> <<Hit(1, 2)>>,
       vectorizer |-> TRUE, query_terms |-> 1,
       dense_error |-> TRUE, sparse_error |-> FALSE] }

\* the user has nothing stored in the collection
EmptyBackend ==
    [dense |-> << >>, sparse |-> << >>,
     vectorizer |-> FALSE, query_terms |-> 0,
     dense_error |-> FALSE, sparse_error |-> FALSE]

HeapObjs(b) ==
    UNION { {DenseObj(c, k) : k \in DOMAIN b[c].dense}
              \cup {SparseObj(c, k) : k \in DOMAIN b[c].sparse} : c \in DOMAIN b }

\* the point objects the Qdrant client builds from the responses
BackendHeap(b) ==
    [o \in HeapObjs(b) |->
        LET c == o \div 10
            k == o % 10
        IN  IF k <= 5
            THEN NewResult(c, 1, b[c].dense[k].chunk, RInt(b[c].dense[k].score))
            ELSE NewResult(c, 1, b[c].sparse[k - 5].chunk, RInt(b[c].sparse[k - 5].score))]

CollectionOrders(n) ==
    { p \in [1..n -> 1..n] : \A i, j \in 1..n : p[i] = p[j] => i = j }

\* (normalization, fusion_method) as callers pass them
MethodArgs ==
    { <<"min_max", "weighted">>, <<"min_max", "reciprocal_rank_fusion">>,
      <<"z_score", "weighted">> }

HybridCall(b, ids, lim, args) ==
    /\ backend = b
    /\ collection_ids = ids
    /\ limit = lim
    /\ normalization = args[1]
    /\ fusion_method = args[2]
    /\ hs_pc = "embed"
    /\ task = [c \in DOMAIN b |-> "pending"]
    /\ overtime = [c \in DOMAIN b |-> FALSE]
    /\ gathered = [c \in DOMAIN b |-> << >>]
    /\ completion = << >>
    /\ hs_out = << >>
    /\ queries = << >>
    /\ heap = BackendHeap(b)
    /\ heap0 = BackendHeap(b)
    /\ dense = << >>
    /\ sparse = << >>
    /\ dense_weight = DEFAULT_DENSE_WEIGHT
    /\ hash_seed = 0
    /\ runs = << >>
    /\ RerankIdle /\ RetrieveIdle /\ VariantsIdle
    /\ ExpansionIdle

InitHybrid ==
    \E n \in 0..MaxColl :
      \E b \in [1..n -> BackendMenu], ids \in CollectionOrders(n),
         lim \in 1..MaxLimit, args \in MethodArgs :
        HybridCall(b, ids, lim, args)

\* await generate_query_embedding(query): an error leaves perform_hybrid_search
Embed ==
    /\ hs_pc = "embed"
    /\ \E ok \in BOOLEAN : hs_pc' = IF ok THEN "gather" ELSE "raised"
    /\ UNCHANGED <<backend, collection_ids, limit, normalization, fusion_method,
                   task, overtime, gathered, completion, hs_out, queries>>
    /\ UNCHANGED fusionVars
    /\ UNCHANGED outsideHybrid

\* gather wraps every coroutine in a task; the loop runs their first steps in
\* the order they were created, each up to its inner gather
StartSearch(i) ==
    /\ hs_pc = "gather"
    /\ task[collection_ids[i]] = "pending"
    /\ \A j \in 1..(i - 1) : task[collection_ids[j]] # "pending"
    /\ task' = [task EXCEPT ![collection_ids[i]] = "running"]
    /\ UNCHANGED <<backend, collection_ids, limit, normalization, fusion_method,
                   hs_pc, overtime, gathered, completion, hs_out, queries>>
    /\ UNCHANGED fusionVars
    /\ UNCHANGED outsideHybrid

\* SEARCH_TIMEOUT seconds have gone by since the search of c started
TimeoutElapses(c) ==
    /\ hs_pc = "gather"
    /\ task[c] = "running"
    /\ ~overtime[c]
    /\ overtime' = [overtime EXCEPT ![c] = TRUE]
    /\ UNCHANGED <<backend, collection_ids, limit, normalization, fusion_method,
                   hs_pc, task, gathered, completion, hs_out, queries>>
    /\ UNCHANGED fusionVars
    /\ UNCHANGED outsideHybrid

\* the two queries of c are answered and _search_collection_parallel returns
FinishSearch(c) ==
    /\ hs_pc = "gather"
    /\ task[c] = "running"
    /\ LET res == _search_collection_parallel(heap, c, limit, dense_weight,
                                              normalization, fusion_method)
       IN  /\ heap' = res.h
           /\ gathered' = [gathered EXCEPT ![c] = res.out]
    /\ queries' = queries \o dense_queries(c, limit) \o sparse_queries(c, limit)
    /\ task' = [task EXCEPT ![c] = "done"]
    /\ completion' = Append(completion, c)
    /\ UNCHANGED <<backend, collection_ids, limit, normalization, fusion_method,
                   hs_pc, overtime, hs_out>>
    /\ UNCHANGED <<heap0, dense, sparse, dense_weight, hash_seed, runs>>
    /\ UNCHANGED outsideHybrid

\* gather is complete: merge, sort, cut
ReturnResults ==
    /\ hs_pc = "gather"
    /\ \A c \in DOMAIN task : task[c] = "done"
    /\ hs_out' = RankAndCut(heap, gather_results(collection_ids, completion, gathered),
                            limit)
    /\ hs_pc' = "done"
    /\ UNCHANGED <<backend, collection_ids, limit, normalization, fusion_method,
                   task, overtime, gathered, completion, queries>>
    /\ UNCHANGED fusionVars
    /\ UNCHANGED outsideHybrid

NextHybrid ==
    \/ Embed
    \/ \E i \in DOMAIN collection_ids : StartSearch(i)
    \/ \E c \in DOMAIN task : TimeoutElapses(c)
    \/ \E c \in DOMAIN task : FinishSearch(c)
    \/ ReturnResults

SpecHybrid == InitHybrid /\ [][NextHybrid]_vars

\* collections whose dense query, sparse query or both fail, next to a
\* healthy one
FailureMenu ==
    { [dense |-> <<Hit(1, 2), Hit(2, 1)>>, sparse |-> <<Hit(2, 2), Hit(1, 1)>>,
       vectorizer |-> TRUE, query_terms |-> 1,
       dense_error |-> FALSE, sparse_error |-> FALSE],
      [dense |-> <<Hit(1, 2)>>, sparse |-> <<Hit(1, 2)>>,
       vectorizer |-> TRUE, query_terms |-> 1,
       dense_error |-> TRUE, sparse_error |-> FALSE],
      [dense |-> <<Hit(1, 2), Hit(2, 1)>>, sparse |-> <<Hit(2, 2)>>,
       vectorizer |-> TRUE, query_terms |-> 1,
       dense_error |-> FALSE, sparse_error |-> TRUE],
      [dense |-> <<Hit(1, 2)>>, sparse |-> <<Hit(1, 2)>>,
       vectorizer |-> TRUE, query_terms |-> 1,
       dense_error |-> TRUE, sparse_error |-> TRUE] }

InitHybridFailures ==
    \E n \in 1..MaxColl :
      \E b \in [1..n -> FailureMenu], lim \in 1..MaxLimit :
        HybridCall(b, [i \in 1..n |-> i], lim, <<"min_max", "weighted">>)

SpecHybridFailures == InitHybridFailures /\ [][NextHybrid]_vars

\* collections with and without sparse evidence
SparseMenu ==
    { \* dense and sparse hits: the fused path
      [dense |-> <<Hit(1, 2), Hit(2, 1)>>, sparse |-> <<Hit(2, 2), Hit(1, 1)>>,
       vectorizer |-> TRUE, query_terms |-> 1,
       dense_error |-> FALSE, sparse_error |-> FALSE],
      \* no TF-IDF vectorizer trained
      [dense |-> <<Hit(1, 2), Hit(2, 1)>>, sparse |-> << >>,
       vectorizer |-> FALSE, query_terms |-> 0,
       dense_error |-> FALSE, sparse_error |-> FALSE],
      \* no term of the query is in the vocabulary: an empty sparse vector
      [dense |-> <<Hit(2, 2), Hit(1, 1)>>, sparse |-> << >>,
       vectorizer |-> TRUE, query_terms |-> 0,
       dense_error |-> FALSE, sparse_error |-> FALSE],
      \* the sparse query matches nothing
      [dense |-> <<Hit(1, 2)>>, sparse |-> << >>,
       vectorizer |-> TRUE, query_terms |-> 1,
       dense_error |-> FALSE, sparse_error |-> FALSE] }

\* the cap of the older server's over-fetch: min(limit * 2, 50)
SEARCH_LIMIT_CAP == 50

\* a small limit, and the first one whose double is above the cap
OverfetchLimits == {1, SEARCH_LIMIT_CAP \div 2 + 1}

InitHybridSparse ==
    \E n \in 1..MaxColl :
      \E b \in [1..n -> SparseMenu], lim \in OverfetchLimits :
        HybridCall(b, [i \in 1..n |-> i], lim, <<"min_max", "weighted">>)

SpecHybridSparse == InitHybridSparse /\ [][NextHybrid]_vars

(***************************************************************************)
(* The older server (server.py): retrieve with search_type "hybrid" walks  *)
(* the collections one after the other and calls its own                   *)
(* perform_hybrid_search for each.                                         *)
(***************************************************************************)
\* get_sparse_query_vector: None without a vectorizer, else a SparseVector,
\* which may have no entries
get_sparse_query_vector(c) ==
    IF ~backend[c].vectorizer
    THEN [none |-> TRUE, indices |-> << >>]
    ELSE [none |-> FALSE,
          indices |-> [k \in 1..backend[c].query_terms |-> k]]

\* "if query_sparse:" a SparseVector object is true whatever it holds
Truthy(query_sparse) == ~query_sparse.none

\* server.perform_hybrid_search for one collection: the two searches with
\* search_limit = min(limit * 2, 50), combine_search_results when both
\* found something, [:limit]; [] on any exception
server_perform_hybrid_search(h, c, lim, dw, query_sparse, seed) ==
    LET search_limit == Min2(lim * 2, SEARCH_LIMIT_CAP)
        dense_query == <<Query(c, "text_dense", search_limit)>>
        sparse_query == IF Truthy(query_sparse)
                        THEN <<Query(c, "text_sparse", search_limit)>>
                        ELSE << >>
        dense_results == Take(DenseObjs(c), search_limit)
        sparse_results == IF Truthy(query_sparse)
                          THEN Take(SparseObjs(c), search_limit) ELSE << >>
    IN  IF backend[c].dense_error
        THEN [out |-> << >>, h |-> h, queries |-> dense_query]
        ELSE IF Truthy(query_sparse) /\ backend[c].sparse_error
        THEN [out |-> << >>, h |-> h, queries |-> dense_query \o sparse_query]
        ELSE IF dense_results # << >> /\ sparse_results # << >>
        THEN LET f == search_weighted_fusion(h, dense_results, sparse_results,
                                             dw, seed)
             IN  [out |-> Take(f.out, lim), h |-> f.h,
                  queries |-> dense_query \o sparse_query]
        ELSE [out |-> Take(dense_results, lim), h |-> h,
              queries |-> dense_query \o sparse_query]

\* one round of "for cid in collection_id" in retrieve: hybrid search when
\* there is a sparse query vector, else the dense search with limit=limit,
\* whose exception ends retrieve
ServerSearchCollection(i) ==
    LET c == collection_ids[i]
        query_sparse == get_sparse_query_vector(c)
    IN  /\ hs_pc = "gather"
        /\ task[c] = "pending"
        /\ \A j \in 1..(i - 1) : task[collection_ids[j]] = "done"
        /\ IF Truthy(query_sparse)
           THEN LET res == server_perform_hybrid_search(
                               heap, c, limit, dense_weight, query_sparse,
                               hash_seed)
                IN  /\ heap' = TagCollection(res.h, res.out, c)
                    /\ gathered' = [gathered EXCEPT ![c] = res.out]
                    /\ queries' = queries \o res.queries
                    /\ UNCHANGED hs_pc
           ELSE /\ queries' = Append(queries, Query(c, "text_dense", limit))
                /\ IF backend[c].dense_error
                   THEN /\ hs_pc' = "raised"
                        /\ UNCHANGED <<heap, gathered>>
                   ELSE LET results == Take(DenseObjs(c), limit)
                        IN  /\ heap' = TagCollection(heap, results, c)
                            /\ gathered' = [gathered EXCEPT ![c] = results]
                            /\ UNCHANGED hs_pc
        /\ task' = [task EXCEPT ![c] = "done"]
        /\ completion' = Append(completion, c)
        /\ UNCHANGED <<backend, collection_ids, limit, normalization,
                       fusion_method, overtime, hs_out>>
        /\ UNCHANGED <<heap0, dense, sparse, dense_weight, hash_seed, runs>>
        /\ UNCHANGED outsideHybrid

NextServerHybrid ==
    \/ Embed
    \/ \E i \in DOMAIN collection_ids : ServerSearchCollection(i)
    \/ ReturnResults

SpecServerHybrid == InitHybridSparse /\ [][NextServerHybrid]_vars

\* one more collection than MAX_CONCURRENT_SEARCHES, all of them empty
InitHybridWide ==
    HybridCall([c \in 1..(MAX_CONCURRENT_SEARCHES + 1) |-> EmptyBackend],
               [i \in 1..(MAX_CONCURRENT_SEARCHES + 1) |-> i],
               1, <<"min_max", "weighted">>)

SpecHybridWide == InitHybridWide /\ [][NextHybrid]_vars

(***************************************************************************)
(* Claims about perform_hybrid_search.                                      *)
(***************************************************************************)
FromCollection(c) == { i \in DOMAIN hs_out : heap[hs_out[i]].coll = c }

\* C4: when perform_hybrid_search has returned, a collection whose search ran
\* longer than the search timeout has no result in the returned list.
C4_TimedOutCollectionContributesNothing ==
    hs_pc = "done" =>
        \A c \in DOMAIN overtime : overtime[c] => FromCollection(c) = {}

InFlight == { c \in DOMAIN task : task[c] = "running" }

\* C5: at every moment at most MAX_CONCURRENT_SEARCHES per-collection search
\* tasks are in flight.
C5_AtMostMaxConcurrentInFlight ==
    Cardinality(InFlight) <= MAX_CONCURRENT_SEARCHES

AllGathered == UNION { Range(gathered[c]) : c \in DOMAIN gathered }

IndexIn(list, o) == CHOOSE k \in DOMAIN list : list[k] = o

ArgPos(c) == IndexIn(collection_ids, c)

IdPos(c) == c

\* a is ranked ahead of b: by score, equal scores by the place Pos gives
\* their collections, within a collection by the place in its list
Ahead(a, b, Pos(_)) ==
    \/ RLess(heap[b].score, heap[a].score)
    \/ /\ heap[a].score = heap[b].score
       /\ \/ Pos(heap[a].coll) < Pos(heap[b].coll)
          \/ /\ heap[a].coll = heap[b].coll
             /\ IndexIn(gathered[heap[a].coll], a) < IndexIn(gathered[heap[a].coll], b)

\* out is the first `limit` of the gathered results in the order Ahead gives
IsTopBy(out, Pos(_)) ==
    /\ Len(out) = Min2(limit, Cardinality(AllGathered))
    /\ Range(out) \subseteq AllGathered
    /\ \A i, j \in DOMAIN out : i < j => Ahead(out[i], out[j], Pos)
    /\ \A o \in AllGathered \ Range(out) : \A i \in DOMAIN out : Ahead(out[i], o, Pos)

NoCrossTies ==
    \A a, b \in AllGathered :
        heap[a].coll # heap[b].coll => heap[a].score # heap[b].score

\* C10 as stated: the returned list is the same for every order of
\* collection_ids and every completion order, so it is the list the ascending
\* order of the collection ids gives.
C10_SameListWhateverTheOrder ==
    hs_pc = "done" => IsTopBy(hs_out, IdPos)

\* C10, amended: the returned list is the gathered results by descending
\* score, cut at limit, whatever order the tasks completed in; results of
\* equal score keep the order of their collections in collection_ids, so the
\* list is the same for every order of collection_ids when no two results of
\* different collections have equal scores.
C10_OrderByScoreThenCollectionOrder ==
    hs_pc = "done" =>
        /\ IsTopBy(hs_out, ArgPos)
        /\ NoCrossTies => IsTopBy(hs_out, IdPos)

\* two collections given in descending order, completed in ascending order,
\* with equal scores across them, both in the returned list
C10_Witness ==
    /\ hs_pc = "done"
    /\ collection_ids = <<2, 1>>
    /\ completion = <<1, 2>>
    /\ ~NoCrossTies
    /\ FromCollection(1) # {} /\ FromCollection(2) # {}

(***************************************************************************)
(* LLMRerankerService (utils/llm_reranker.py).  A candidate is an object    *)
(* with a payload (a dict, or None) and attributes; a dict is a function    *)
(* from the keys it holds.                                                  *)
(***************************************************************************)
MaxCand == 6

RERANKER_BATCH_SIZE == 5

EmptyDict == [k \in {} |-> 0]

\* d[key] = value
DictSet(d, key, value) ==
    [k \in DOMAIN d \cup {key} |-> IF k = key THEN value ELSE d[k]]

DigitValue ==
    ("0" :> 0) @@ ("1" :> 1) @@ ("2" :> 2) @@ ("3" :> 3) @@ ("4" :> 4) @@
    ("5" :> 5) @@ ("6" :> 6) @@ ("7" :> 7) @@ ("8" :> 8) @@ ("9" :> 9)

IsDigit(ch) == ch \in DOMAIN DigitValue

\* re.findall(r'\d+', response)[0]: the first run of digits
RECURSIVE DropNonDigits(_)
DropNonDigits(text) ==
    IF text = << >> \/ IsDigit(Head(text)) THEN text ELSE DropNonDigits(Tail(text))

RECURSIVE ReadDigits(_, _)
ReadDigits(text, acc) ==
    IF text = << >> \/ ~IsDigit(Head(text)) THEN acc
    ELSE ReadDigits(Tail(text), 10 * acc + DigitValue[Head(text)])

\* mutant: the number read is returned as it is
_parse_llm_response_unclamped(response) ==
    LET numbers == DropNonDigits(response)
    IN  IF numbers # << >> THEN ReadDigits(numbers, 0) ELSE 50

\* a response is the sequence of its characters
_parse_llm_response(response) ==
    LET numbers == DropNonDigits(response)
    IN  IF numbers # << >>
        THEN LET score == ReadDigits(numbers, 0)
             IN  IF score > 100 THEN 100 ELSE IF score < 0 THEN 0 ELSE score
        ELSE 50

\* what llm_client.ainvoke does for one candidate
LLMOutcomes ==
    { [raises |-> TRUE, content |-> << >>],
      [raises |-> FALSE, content |-> <<"2", "0">>],
      [raises |-> FALSE, content |-> <<"n", "/", "a">>],
      [raises |-> FALSE, content |-> <<"S", ":", " ", "2", "5", "0">>] }

\* candidate.payload.get on a None payload and a failing LLM call both end in
\* the except branch
_score_candidate(h, candidate, llm) ==
    IF ~h[candidate].payload_is_dict \/ llm.raises
    THEN 50
    ELSE _parse_llm_response(llm.content)

\* a timeout handler that scores nothing
TimedOutBatchDropped(batch) == << >>

\* except asyncio.TimeoutError: a scored entry, with 50, for every candidate
TimedOutBatch(batch) == [k \in DOMAIN batch |-> [obj |-> batch[k], score |-> 50]]

\* gather(..., return_exceptions=True) zipped with the batch
ScoredBatch(h, batch, outcomes) ==
    [k \in DOMAIN batch |->
        [obj |-> batch[k], score |-> _score_candidate(h, batch[k], outcomes[k])]]

\* sorted(scored_candidates, key=lambda x: x[1], reverse=True)[:limit]
SortAndCut(scored, lim) ==
    LET keyed == [i \in DOMAIN scored |->
                     [obj |-> scored[i], score |-> RInt(scored[i].score)]]
    IN  Take(Objs(SortDesc(keyed)), lim)

\* stamping with enumerate(reranked_results), ranks from 0
StampPayloadFromZero(o, reranker_score, rank) ==
    [o EXCEPT !.payload = DictSet(DictSet(@, "reranker_score", reranker_score),
                                  "final_rank", rank - 1)]

\* result.payload['reranker_score'] = ...; result.payload['final_rank'] = rank
StampPayload(o, reranker_score, rank) ==
    [o EXCEPT !.payload = DictSet(DictSet(@, "reranker_score", reranker_score),
                                  "final_rank", rank)]

\* the first ranked result whose payload cannot be written (0: none)
FirstUnwritable(h, ranked) ==
    IF \E i \in DOMAIN ranked : ~h[ranked[i].obj].payload_is_dict
    THEN CHOOSE i \in DOMAIN ranked :
            /\ ~h[ranked[i].obj].payload_is_dict
            /\ \A j \in 1..(i - 1) : h[ranked[j].obj].payload_is_dict
    ELSE 0

\* the stamping loop over ranked[1..upto]
StampRanked(h, ranked, upto) ==
    [o \in DOMAIN h |->
        IF \E i \in 1..upto : ranked[i].obj = o
        THEN LET i == CHOOSE j \in 1..upto : ranked[j].obj = o
             IN  StampPayload(h[o], ranked[i].score, i)
        ELSE h[o]]

\* candidate.reranker_score = 50; candidate.final_rank = rank
_create_fallback_results(h, cands) ==
    [o \in DOMAIN h |->
        IF \E i \in DOMAIN cands : cands[i] = o
        THEN LET i == CHOOSE j \in DOMAIN cands : cands[j] = o
             IN  [h[o] EXCEPT !.attrs = DictSet(DictSet(@, "reranker_score", 50),
                                                "final_rank", i)]
        ELSE h[o]]

NewCandidate(payload_is_dict) ==
    [payload_is_dict |-> payload_is_dict, payload |-> EmptyDict, attrs |-> EmptyDict]

FusionIdle ==
    /\ heap = << >>
    /\ heap0 = << >>
    /\ dense = << >>
    /\ sparse = << >>
    /\ dense_weight = DEFAULT_DENSE_WEIGHT
    /\ hash_seed = 0
    /\ runs = << >>

\* rerank_results(query, candidates, limit); at most one candidate came
\* without a payload
InitRerank ==
    /\ \E n \in 0..MaxCand, none \in 0..MaxCand, lim \in 1..MaxLimit :
        /\ none <= n
        /\ candidates = [i \in 1..n |-> i]
        /\ rr_heap = [o \in 1..n |-> NewCandidate(o # none)]
        /\ rr_limit = lim
    /\ rr_pc = "batches"
    /\ scored_results = << >>
    /\ batch_log = << >>
    /\ rr_path = "none"
    /\ rr_out = << >>
    /\ FusionIdle /\ HybridIdle /\ RetrieveIdle /\ VariantsIdle
    /\ ExpansionIdle

\* if not candidates: return []
ReturnEmpty ==
    /\ rr_pc = "batches"
    /\ candidates = << >>
    /\ rr_pc' = "done"
    /\ rr_path' = "empty"
    /\ rr_out' = << >>
    /\ UNCHANGED <<rr_heap, candidates, rr_limit, scored_results, batch_log>>
    /\ UNCHANGED outsideRerank

\* one turn of the loop of _batch_process_candidates: the batch is scored
\* concurrently, or RERANKER_TIMEOUT passes first
ProcessBatch ==
    /\ rr_pc = "batches"
    /\ LET i == Len(batch_log) * RERANKER_BATCH_SIZE
           batch == SubSeq(candidates, i + 1,
                           Min2(i + RERANKER_BATCH_SIZE, Len(candidates)))
       IN  /\ i < Len(candidates)
           /\ \/ /\ scored_results' = scored_results \o TimedOutBatch(batch)
                 /\ batch_log' = Append(batch_log,
                                        [timed_out |-> TRUE, outcomes |-> << >>])
              \/ \E outcomes \in [DOMAIN batch -> LLMOutcomes] :
                 /\ \A k \in DOMAIN batch :
                        ~rr_heap[batch[k]].payload_is_dict => outcomes[k].raises
                 /\ scored_results' =
                        scored_results \o ScoredBatch(rr_heap, batch, outcomes)
                 /\ batch_log' = Append(batch_log,
                                        [timed_out |-> FALSE, outcomes |-> outcomes])
    /\ UNCHANGED <<rr_pc, rr_heap, candidates, rr_limit, rr_path, rr_out>>
    /\ UNCHANGED outsideRerank

\* the rest of rerank_results: sort, cut, stamp; any exception on the way
\* ends in _create_fallback_results(candidates[:limit])
FinishRerank ==
    /\ rr_pc = "batches"
    /\ candidates # << >>
    /\ Len(batch_log) * RERANKER_BATCH_SIZE >= Len(candidates)
    /\ LET reranked_results == SortAndCut(scored_results, rr_limit)
           bad == FirstUnwritable(rr_heap, reranked_results)
       IN  IF bad = 0
           THEN /\ rr_heap' = StampRanked(rr_heap, reranked_results,
                                          Len(reranked_results))
                /\ rr_out' = Objs(reranked_results)
                /\ rr_path' = "success"
           ELSE /\ rr_heap' = _create_fallback_results(
                                  StampRanked(rr_heap, reranked_results, bad - 1),
                                  Take(candidates, rr_limit))
                /\ rr_out' = Take(candidates, rr_limit)
                /\ rr_path' = "fallback"
    /\ rr_pc' = "done"
    /\ UNCHANGED <<candidates, rr_limit, scored_results, batch_log>>
    /\ UNCHANGED outsideRerank

NextRerank ==
    \/ ReturnEmpty
    \/ ProcessBatch
    \/ FinishRerank

SpecRerank == InitRerank /\ [][NextRerank]_vars

(***************************************************************************)
(* Claims about the reranker (checked under SpecRerank).                    *)
(***************************************************************************)
BatchOf(i) == ((i - 1) \div RERANKER_BATCH_SIZE) + 1

PlaceInBatch(i) == ((i - 1) % RERANKER_BATCH_SIZE) + 1

AllCallsFailed(b) == \A k \in DOMAIN b.outcomes : b.outcomes[k].raises

\* the score a scoring call of its own earns: "20" is 20, "n/a" is 50,
\* "S: 250" is 100
OwnScore(outcome) ==
    IF outcome.raises THEN 50
    ELSE IF outcome.content = <<"2", "0">> THEN 20
    ELSE IF outcome.content = <<"n", "/", "a">> THEN 50
    ELSE 100

\* C7: every candidate of a processed batch appears among the scored
\* candidates, in input order; it has score 50 when its batch timed out or all
\* scoring calls of its batch failed, and otherwise the score of its own call.
C7_FailedBatchScoresFiftyNoneDropped ==
    /\ Len(scored_results) =
           Min2(Len(batch_log) * RERANKER_BATCH_SIZE, Len(candidates))
    /\ \A i \in DOMAIN scored_results :
        LET b == batch_log[BatchOf(i)]
        IN  /\ scored_results[i].obj = candidates[i]
            /\ (b.timed_out \/ AllCallsFailed(b)) => scored_results[i].score = 50
            /\ ~b.timed_out =>
                  scored_results[i].score = OwnScore(b.outcomes[PlaceInBatch(i)])

\* the first batch timed out, the second was scored
C7_Witness ==
    /\ Len(batch_log) = 2
    /\ batch_log[1].timed_out
    /\ ~batch_log[2].timed_out
    /\ scored_results[Len(scored_results)].score = 20

ScoreGiven(o) ==
    LET i == CHOOSE j \in DOMAIN scored_results : scored_results[j].obj = o
    IN  scored_results[i].score

HasStamp(o, key) == rr_heap[o].payload_is_dict /\ key \in DOMAIN rr_heap[o].payload

\* C8: a call that did not fail as a whole returns min(limit, number of
\* candidates) results; the i-th carries final_rank = i and the reranker_score
\* it was given, and the reranker scores do not increase down the list.
C8_TopLimitSortedAndStamped ==
    /\ rr_path = "empty" => rr_out = << >> /\ candidates = << >>
    /\ rr_path = "success" =>
        /\ Len(rr_out) = Min2(rr_limit, Len(candidates))
        /\ \A i \in DOMAIN rr_out :
            /\ HasStamp(rr_out[i], "final_rank")
            /\ HasStamp(rr_out[i], "reranker_score")
            /\ rr_heap[rr_out[i]].payload["final_rank"] = i
            /\ rr_heap[rr_out[i]].payload["reranker_score"] = ScoreGiven(rr_out[i])
        /\ \A i, j \in DOMAIN rr_out :
            i < j => ScoreGiven(rr_out[i]) >= ScoreGiven(rr_out[j])

\* three or more candidates, limit 2, the best one not the first candidate
C8_Witness ==
    /\ rr_path = "success"
    /\ Len(candidates) >= 3
    /\ rr_limit = 2
    /\ rr_out[1] # candidates[1]
    /\ ScoreGiven(rr_out[1]) = 100
    /\ ScoreGiven(rr_out[2]) = 20

\* C9: when the call fails as a whole, the first `limit` candidates come back
\* in input order, each carrying 50 and its rank in the payload fields the
\* successful path writes (for every candidate that has a payload).
C9_FallbackUsesTheSameFields ==
    rr_path = "fallback" =>
        /\ rr_out = Take(candidates, rr_limit)
        /\ \A i \in DOMAIN rr_out :
            rr_heap[rr_out[i]].payload_is_dict =>
                /\ HasStamp(rr_out[i], "reranker_score")
                /\ HasStamp(rr_out[i], "final_rank")
                /\ rr_heap[rr_out[i]].payload["reranker_score"] = 50
                /\ rr_heap[rr_out[i]].payload["final_rank"] = i

(***************************************************************************)
(* The retrieve tool (mcps/rag-mcp/rag-mcp/server.py and the older          *)
(* python/rag-mcp/server.py).  The services it awaits either hand back a    *)
(* list of results or raise.  A string is the sequence of its parts.        *)
(***************************************************************************)
RERANKER_TOP_N == 10

NoneFound == <<"No relevant documents found.">>

ErrorPrefix == "Error during retrieval: "

InvalidPrefix == "Invalid collection_id type: expected list of strings, got "

Chunk == "{text} SOURCE_CITATION: \\cite{...}"

EmbeddingError == "embedding provider unreachable"

SearchError == "search failed"

PayloadError == "'NoneType' object has no attribute 'get'"

\* what a call hands its caller: a string, or an exception
Returned(text) == [raised |-> FALSE, text |-> text]

\* an except clause that lets the exception go on to the caller
Reraised(message) == [raised |-> TRUE, text |-> <<message>>]

\* except Exception as e: return f"Error during retrieval: {str(e)}"
OnException(message) == Returned(<<ErrorPrefix, message>>)

\* "\n\n".join(formatted_results)
RECURSIVE JoinChunks(_)
JoinChunks(n) == IF n = 1 THEN <<Chunk>> ELSE JoinChunks(n - 1) \o <<"\n\n", Chunk>>

\* result.payload.get(...) raises AttributeError on a result without payload
format_results_response(results) ==
    IF results = << >> THEN [raises |-> FALSE, text |-> NoneFound]
    ELSE IF \E i \in DOMAIN results : ~results[i].payload_is_dict
         THEN [raises |-> TRUE, text |-> <<PayloadError>>]
         ELSE [raises |-> FALSE, text |-> JoinChunks(Len(results))]

Result(score, payload_is_dict) == [score |-> score, payload_is_dict |-> payload_is_dict]

\* what the search services find
ResultMenu ==
    { << >>,
      <<Result(2, TRUE)>>,
      <<Result(1, TRUE), Result(2, TRUE)>>,
      <<Result(2, FALSE)>> }

Reverse(s) == [i \in DOMAIN s |-> s[Len(s) + 1 - i]]

\* final_limit = min(config.RERANKER_TOP_N, limit)
final_limit(lim) == Min2(RERANKER_TOP_N, lim)

InitRetrieve ==
    /\ \E server \in {"mcps", "legacy"}, valid \in BOOLEAN, query_empty \in BOOLEAN,
          search_type \in {"hybrid", "dense"}, lim \in 1..MaxLimit,
          expansion \in BOOLEAN, reranking \in BOOLEAN :
        /\ server = "legacy" => ~reranking
        /\ rt_server = server
        /\ rt_args = [collection_id_valid |-> valid, query_empty |-> query_empty,
                      search_type |-> search_type, limit |-> lim]
        /\ rt_flags = [ENABLE_QUERY_EXPANSION |-> expansion,
                       ENABLE_LLM_RERANKING |-> reranking]
    /\ rt_pc = "validate"
    /\ rt_results = << >>
    /\ rt_calls = {}
    /\ rt_ret = << >>
    /\ FusionIdle /\ HybridIdle /\ RerankIdle /\ VariantsIdle
    /\ ExpansionIdle

\* mutant: the arguments are not looked at before the search starts
RtValidateSkipped ==
    /\ rt_pc = "validate"
    /\ rt_pc' = "search"
    /\ UNCHANGED <<rt_server, rt_args, rt_flags, rt_results, rt_calls, rt_ret>>
    /\ UNCHANGED outsideRetrieve

\* isinstance(collection_id, list) and all(isinstance(cid, str) ...)
RtValidate ==
    /\ rt_pc = "validate"
    /\ IF rt_args.collection_id_valid
       THEN /\ rt_pc' = "search"
            /\ UNCHANGED rt_ret
       ELSE /\ rt_pc' = "returned"
            /\ rt_ret' = Returned(<<InvalidPrefix, "{type}", ": ", "{repr}">>)
    /\ UNCHANGED <<rt_server, rt_args, rt_flags, rt_results, rt_calls>>
    /\ UNCHANGED outsideRetrieve

\* the awaited search (expansion retrieval, hybrid or dense): the query is
\* embedded, the collections are searched; the older server sorts and cuts
\* what it found, the newer one hands it to the reranker or cuts it
RtSearch ==
    /\ rt_pc = "search"
    /\ \/ /\ rt_calls' = rt_calls \cup {"embedding"}
          /\ rt_ret' = OnException(EmbeddingError)
          /\ rt_pc' = "returned"
          /\ UNCHANGED rt_results
       \/ /\ rt_calls' = rt_calls \cup {"embedding", "search"}
          /\ rt_ret' = OnException(SearchError)
          /\ rt_pc' = "returned"
          /\ UNCHANGED rt_results
       \/ \E found \in ResultMenu :
          /\ rt_calls' = rt_calls \cup {"embedding", "search"}
          /\ UNCHANGED rt_ret
          /\ IF rt_server = "legacy"
             THEN /\ rt_results' = SortAndCut(found, rt_args.limit)
                  /\ rt_pc' = "format"
             ELSE IF rt_flags.ENABLE_LLM_RERANKING /\ found # << >>
                  THEN /\ rt_results' = found
                       /\ rt_pc' = "rerank"
                  ELSE /\ rt_results' = Take(found, rt_args.limit)
                       /\ rt_pc' = "format"
    /\ UNCHANGED <<rt_server, rt_args, rt_flags>>
    /\ UNCHANGED outsideRetrieve

\* await reranker_service.rerank_results(...); on an exception the first
\* final_limit results are kept
RtRerank ==
    /\ rt_pc = "rerank"
    /\ rt_calls' = rt_calls \cup {"llm"}
    /\ \E reranked \in {rt_results, Reverse(rt_results)}, raises \in BOOLEAN :
        rt_results' = Take(IF raises THEN rt_results ELSE reranked,
                           final_limit(rt_args.limit))
    /\ rt_pc' = "format"
    /\ UNCHANGED <<rt_server, rt_args, rt_flags, rt_ret>>
    /\ UNCHANGED outsideRetrieve

\* return format_results_response(final_results, ...), inside the try
RtFormat ==
    /\ rt_pc = "format"
    /\ LET formatted == format_results_response(rt_results)
       IN  rt_ret' = IF formatted.raises
                     THEN OnException(formatted.text[1])
                     ELSE Returned(formatted.text)
    /\ rt_pc' = "returned"
    /\ UNCHANGED <<rt_server, rt_args, rt_flags, rt_results, rt_calls>>
    /\ UNCHANGED outsideRetrieve

NextRetrieve ==
    \/ RtValidate
    \/ RtSearch
    \/ RtRerank
    \/ RtFormat

SpecRetrieve == InitRetrieve /\ [][NextRetrieve]_vars

(***************************************************************************)
(* Claims about retrieve (checked under SpecRetrieve).                      *)
(***************************************************************************)
IsNoneFound(text) == text = NoneFound

IsError(text) == Len(text) = 2 /\ text[1] = ErrorPrefix

IsInvalidCollectionId(text) == Len(text) >= 1 /\ text[1] = InvalidPrefix

IsFormatted(text) ==
    /\ Len(text) % 2 = 1
    /\ \A i \in DOMAIN text : text[i] = IF i % 2 = 1 THEN Chunk ELSE "\n\n"

\* C6: retrieve never raises and returns the formatted results, exactly
\* "No relevant documents found.", or "Error during retrieval: <message>".
C6_ReturnsOneOfThreeStrings ==
    rt_pc = "returned" =>
        /\ ~rt_ret.raised
        /\ IsFormatted(rt_ret.text) \/ IsNoneFound(rt_ret.text) \/ IsError(rt_ret.text)

\* C6, amended: retrieve never raises and returns the formatted results,
\* exactly "No relevant documents found." when the result set is empty,
\* "Error during retrieval: <message>" when a collaborator failed, or
\* "Invalid collection_id type: ..." when collection_id is not a list of
\* strings.
C6_ReturnsOneOfFourStrings ==
    rt_pc = "returned" =>
        /\ ~rt_ret.raised
        /\ \/ IsFormatted(rt_ret.text) /\ rt_results # << >>
           \/ IsNoneFound(rt_ret.text) /\ rt_results = << >>
                 /\ rt_args.collection_id_valid
           \/ IsError(rt_ret.text) /\ rt_args.collection_id_valid
           \/ IsInvalidCollectionId(rt_ret.text) /\ ~rt_args.collection_id_valid
                 /\ rt_calls = {}
        /\ "search" \notin rt_calls /\ "embedding" \in rt_calls =>
              rt_ret.text = <<ErrorPrefix, EmbeddingError>>

\* the embedding provider was unreachable
C6_Witness ==
    /\ rt_pc = "returned"
    /\ rt_calls = {"embedding"}
    /\ rt_ret = Returned(<<ErrorPrefix, EmbeddingError>>)

\* C14: when collection_id is not a list of strings, retrieve returns a
\* descriptive error string, does not raise, and calls neither the embedding
\* model nor a search nor the LLM.
C14_InvalidCollectionIdReturnsErrorWithoutCalls ==
    (rt_pc # "idle" /\ ~rt_args.collection_id_valid) =>
        /\ rt_calls = {}
        /\ rt_pc \in {"validate", "returned"}
        /\ rt_pc = "returned" =>
               /\ ~rt_ret.raised
               /\ IsInvalidCollectionId(rt_ret.text)

C14_Witness ==
    /\ rt_pc = "returned"
    /\ ~rt_args.collection_id_valid
    /\ ~rt_ret.raised
    /\ IsInvalidCollectionId(rt_ret.text)
    /\ rt_calls = {}

\* C15: when the query is empty, retrieve gives its caller a descriptive
\* input-validation error at once, before any embedding or search call.
C15_EmptyQueryRejectedBeforeAnyCall ==
    (rt_pc # "idle" /\ rt_args.query_empty) =>
        /\ rt_calls = {}
        /\ rt_pc = "returned" => ~rt_ret.raised /\ ~IsFormatted(rt_ret.text)

\* the sub-search of collection c that failed, if any
SubSearchFailed(c) == backend[c].dense_error \/ backend[c].sparse_error

\* what the search of collection c alone gives, whatever the others do
SearchedAlone(c) ==
    _search_collection_parallel(heap0, c, limit, dense_weight, normalization,
                                fusion_method)

\* every search ran to its end and the call returned their merged results
SiblingsUnaffected ==
    /\ \A c \in DOMAIN task :
           task[c] = "done" =>
               /\ gathered[c] = SearchedAlone(c).out
               /\ \A o \in Range(gathered[c]) : heap[o] = SearchedAlone(c).h[o]
    /\ hs_pc = "raised" => \A c \in DOMAIN task : task[c] = "pending"
    /\ hs_pc = "done" =>
           /\ \A c \in DOMAIN task : task[c] = "done"
           /\ hs_out = RankAndCut(heap, [i \in DOMAIN collection_ids |->
                                            gathered[collection_ids[i]]], limit)

AcceptedNormalizations == {"min_max", "z_score", "reciprocal_rank"}

ChunksOf(h, list) == {h[list[i]].chunk : i \in DOMAIN list}

\* C18: for each accepted normalization value (min_max, z_score,
\* reciprocal_rank) a collection with non-empty dense and sparse results
\* contributes its fused results: every passage either search found is in
\* the collection's list.
C18_EveryNormalizationValueFuses ==
    (hs_pc \in {"gather", "done"} /\ normalization \in AcceptedNormalizations) =>
        \A c \in DOMAIN task :
            LET dense_results == _perform_dense_search(c, limit)
                sparse_results == _perform_sparse_search(c, limit)
            IN  (task[c] = "done" /\ dense_results # << >> /\ sparse_results # << >>)
                    => ChunksOf(heap, gathered[c]) =
                           ChunksOf(heap, dense_results) \cup ChunksOf(heap, sparse_results)

\* C19: perform_hybrid_search returns at most limit results, in order of
\* non-increasing fused score, drawn from the concatenation of the
\* per-collection result lists: the best limit of them, each once.
C19_AtMostLimitSortedFromCollections ==
    hs_pc = "done" =>
        LET all_results == Flatten([i \in DOMAIN collection_ids |->
                                       gathered[collection_ids[i]]])
        IN  /\ Len(hs_out) = Min2(limit, Len(all_results))
            /\ SortedDesc(heap, hs_out)
            /\ Range(hs_out) \subseteq Range(all_results)
            /\ \A i, j \in DOMAIN hs_out : i # j => hs_out[i] # hs_out[j]
            /\ \A o \in Range(all_results) \ Range(hs_out) :
                   \A i \in DOMAIN hs_out :
                       RLeq(heap[o].score, heap[hs_out[i]].score)

C19_Witness ==
    /\ hs_pc = "done"
    /\ Len(hs_out) = limit
    /\ limit >= 2
    /\ \E i, j \in DOMAIN hs_out :
           /\ heap[hs_out[i]].tag # heap[hs_out[j]].tag
           /\ heap[hs_out[i]].score # heap[hs_out[j]].score
    /\ \E c \in DOMAIN gathered : Range(gathered[c]) \ Range(hs_out) # {}

(***************************************************************************)
(* Fusion across query variants: ScoreFusionService                         *)
(* (utils/query_expansion.py) and FusionService.fuse_query_variants         *)
(* (utils/fusion_score.py).                                                 *)
(***************************************************************************)
\* a result object whose payload also carries page_number
NewPagedResult(coll, doc, chunk, page, score) ==
    [id |-> PointId(coll, doc, chunk), doc |-> doc, chunk |-> chunk,
     page |-> page, coll |-> coll, score |-> score, tag |-> 0]

\* md5 of "<document_id>_<chunk_id>", or of "<document_id>_<page_number>"
\* when chunk_id is falsy (absent, empty or 0); the digest is taken to be
\* injective on the string, so the string's two parts stand for it.
create_chunk_hash(r) == <<r.doc, IF r.chunk # 0 THEN r.chunk ELSE r.page>>

\* (result, score) tuples in dict order, then sort(key=score, reverse=True)
FusedTuples(items) ==
    LET keys == FirstSeen(items, << >>)
    IN  SortDesc([i \in DOMAIN keys |->
                     [obj |-> LastObjFor(items, keys[i]),
                      score |-> TotalFor(items, keys[i])]])

ScoreFusionService_reciprocal_rank_fusion(h, groups, k) ==
    LET GroupItems(g) ==
            [i \in DOMAIN groups[g] |->
                [obj |-> groups[g][i],
                 hash |-> create_chunk_hash(h[groups[g][i]]),
                 val |-> Rat(1, (i - 1) + 1 + k)]]
    IN  FusedTuples(Flatten([g \in DOMAIN groups |-> GroupItems(g)]))

\* the normalization written out inside weighted_score_fusion
normalize_variant(scores) ==
    IF scores = << >> THEN << >>
    ELSE LET max_score == RMaxSeq(scores)
             min_score == RMinSeq(scores)
             score_range == IF max_score # min_score
                            THEN RSub(max_score, min_score) ELSE ROne
         IN  [i \in DOMAIN scores |->
                 RDiv(RSub(scores[i], min_score), score_range)]

\* variant_weights = << >> stands for variant_weights=None
weighted_score_fusion(h, groups, variant_weights) ==
    LET w == IF variant_weights = << >>
             THEN [g \in DOMAIN groups |-> ROne] ELSE variant_weights
        GroupItems(g) ==
            LET ns == normalize_variant(Scores(h, groups[g]))
            IN  [i \in DOMAIN groups[g] |->
                    [obj |-> groups[g][i],
                     hash |-> create_chunk_hash(h[groups[g][i]]),
                     val |-> RMul(w[g], ns[i])]]
    IN  FusedTuples(Flatten([g \in DOMAIN groups |-> GroupItems(g)]))

\* doc_scores / doc_objects after the items seen so far: an entry is replaced
\* only by a strictly higher score
RECURSIVE MaxPerHash(_, _)
MaxPerHash(items, acc) ==
    IF items = << >> THEN acc
    ELSE LET r == Head(items)
             at == {i \in DOMAIN acc : acc[i].hash = r.hash}
         IN  MaxPerHash(Tail(items),
                 IF at = {} THEN Append(acc, r)
                 ELSE LET i == CHOOSE j \in at : TRUE
                      IN  IF RLess(acc[i].val, r.val)
                          THEN [acc EXCEPT ![i] = r] ELSE acc)

max_score_fusion(h, groups) ==
    LET GroupItems(g) ==
            [i \in DOMAIN groups[g] |->
                [obj |-> groups[g][i],
                 hash |-> create_chunk_hash(h[groups[g][i]]),
                 val |-> h[groups[g][i]].score]]
        kept == MaxPerHash(Flatten([g \in DOMAIN groups |-> GroupItems(g)]),
                          << >>)
    IN  SortDesc([i \in DOMAIN kept |->
                     [obj |-> kept[i].obj, score |-> kept[i].val]])

VariantMethods == {"rrf", "weighted", "max_score"}

\* expansion_metrics["fusion_method_usage"][method] += 1
CountFusionMethod(metrics, method) ==
    LET usage == metrics.fusion_method_usage
        count == IF method \in DOMAIN usage THEN usage[method] ELSE 0
    IN  [metrics EXCEPT !.fusion_method_usage =
                            DictSet(usage, method, count + 1)]

\* method=None takes EXPANSION_FUSION_METHOD, which is one of the three
apply_fusion(h, groups, method, variant_weights) ==
    IF method = "rrf"
    THEN ScoreFusionService_reciprocal_rank_fusion(h, groups, RRF_K)
    ELSE IF method = "weighted"
         THEN weighted_score_fusion(h, groups, variant_weights)
    ELSE IF method = "max_score" THEN max_score_fusion(h, groups)
    ELSE ScoreFusionService_reciprocal_rank_fusion(h, groups, RRF_K)

\* FusionService.fuse_query_variants: fuse_results on the variant lists, then
\* [(result, result.score) for result in fused_results]
fuse_query_variants(h, groups, method, variant_weights) ==
    LET chosen ==
            IF method = "rrf" THEN "reciprocal_rank_fusion"
            ELSE IF method = "weighted" THEN "weighted"
            ELSE IF method = "max_score" THEN "max_score"
            ELSE "reciprocal_rank_fusion"
        fused == fuse_results(h, groups, chosen, variant_weights)
    IN  [out |-> [i \in DOMAIN fused.out |->
                     [obj |-> fused.out[i],
                      score |-> fused.h[fused.out[i]].score]],
         h |-> fused.h]

(***************************************************************************)
(* One fusion call over the result lists of two query variants.  The lists  *)
(* are per-collection results appended one after another, so they are in    *)
(* no particular score order and the same passage may occur in a list more  *)
(* than once (once per collection holding it).                              *)
(***************************************************************************)
VariantChunks == {1, 2}
VariantScores == {RInt(1), RInt(2)}
VariantPlaces == {"first", "second", "both"}

\* the objects placed in a variant's list, in object order
VariantList(place, which) ==
    SelectSeq([o \in DOMAIN place |-> o],
              LAMBDA o : place[o] \in {which, "both"})

InitVariants ==
    /\ \E n \in 0..NObj :
       \E chunk \in [1..n -> VariantChunks] :
       \E score \in [1..n -> VariantScores] :
       \E place \in [1..n -> VariantPlaces] :
          /\ qv_heap = [o \in 1..n |->
                           NewPagedResult(o, 1, chunk[o], 1, score[o])]
          /\ results_by_variant =
                 <<VariantList(place, "first"), VariantList(place, "second")>>
    /\ qv_heap0 = qv_heap
    /\ qv_pc = "ready"
    /\ qv_op = [fn |-> "none", method |-> "none"]
    /\ normalized_variants = << >>
    /\ qv_out = << >>
    /\ FusionIdle /\ HybridIdle /\ RerankIdle /\ RetrieveIdle
    /\ ExpansionIdle

\* ScoreFusionService.apply_fusion(results_by_variant, method)
CallApplyFusion(method) ==
    /\ qv_pc = "ready"
    /\ qv_out' = apply_fusion(qv_heap, results_by_variant, method, << >>)
    /\ normalized_variants' =
           IF method = "weighted"
           THEN [g \in DOMAIN results_by_variant |->
                    normalize_variant(Scores(qv_heap, results_by_variant[g]))]
           ELSE << >>
    /\ qv_op' = [fn |-> "apply_fusion", method |-> method]
    /\ qv_pc' = "done"
    /\ expansion_metrics' = CountFusionMethod(expansion_metrics, method)
    /\ UNCHANGED <<qv_heap, qv_heap0, results_by_variant>>
    /\ UNCHANGED <<fusionVars, hybridVars, rerankVars, retrieveVars,
                   qeCallVars>>

\* FusionService.fuse_query_variants(results_by_variant, method)
CallFuseQueryVariants(method) ==
    /\ qv_pc = "ready"
    /\ LET r == fuse_query_variants(qv_heap, results_by_variant, method, << >>)
       IN  /\ qv_out' = r.out
           /\ qv_heap' = r.h
    /\ normalized_variants' =
           IF method # "rrf" /\ AnyNonEmpty(results_by_variant)
           THEN [g \in DOMAIN results_by_variant |->
                    normalize_scores(Scores(qv_heap, results_by_variant[g]))]
           ELSE << >>
    /\ qv_op' = [fn |-> "fuse_query_variants", method |-> method]
    /\ qv_pc' = "done"
    /\ UNCHANGED <<qv_heap0, results_by_variant>>
    /\ UNCHANGED outsideVariants

NextVariants ==
    \/ \E method \in VariantMethods : CallApplyFusion(method)
    \/ \E method \in VariantMethods : CallFuseQueryVariants(method)

SpecVariants == InitVariants /\ [][NextVariants]_vars

\* C11: wherever a list is min-max normalized before fusion, a non-empty
\* list whose scores are all equal comes out as 1.0 for every element.
Uniform(scores) ==
    scores # << >> /\ \A i \in DOMAIN scores : scores[i] = scores[1]

C11_UniformListNormalizesToOne ==
    qv_pc = "done" =>
        \A g \in DOMAIN normalized_variants :
            Uniform(Scores(qv_heap0, results_by_variant[g])) =>
                \A i \in DOMAIN normalized_variants[g] :
                    normalized_variants[g][i] = ROne

\* the dedup key the called fusion function gives an input object
VariantHash(o) ==
    IF qv_op.fn = "apply_fusion" THEN create_chunk_hash(qv_heap0[o])
    ELSE create_result_hash(qv_heap0[o])

\* the RRF score the called function gives a candidate found at rank 1 of
\* every one of n lists
RankOneInEveryList(fn, n) ==
    LET h == <<NewPagedResult(1, 1, 1, 1, ROne)>>
        groups == [g \in 1..n |-> <<1>>]
    IN  IF fn = "apply_fusion"
        THEN ScoreFusionService_reciprocal_rank_fusion(h, groups, RRF_K)[1].score
        ELSE reciprocal_rank_fusion(h, groups, RRF_K).h[1].score

\* object o's candidate is at rank 1 of exactly one list, absent from the rest
RankOneInOneListOnly(o) ==
    \E g \in DOMAIN results_by_variant :
        /\ results_by_variant[g] # << >>
        /\ VariantHash(results_by_variant[g][1]) = VariantHash(o)
        /\ \A g2 \in DOMAIN results_by_variant \ {g} :
               \A i \in DOMAIN results_by_variant[g2] :
                   VariantHash(results_by_variant[g2][i]) # VariantHash(o)

\* C12: with two or more input lists, a candidate at rank 1 in every list
\* gets a strictly higher RRF score than a candidate at rank 1 in exactly
\* one list and absent from all others.
C12_RankOneEverywhereBeatsRankOneOnce ==
    (qv_pc = "done" /\ qv_op.method = "rrf") =>
        \A i \in DOMAIN qv_out :
            RankOneInOneListOnly(qv_out[i].obj) =>
                RLess(qv_out[i].score,
                      RankOneInEveryList(qv_op.fn, Len(results_by_variant)))

\* C13: fuse_query_variants returns (result, score) pairs and leaves the
\* score of every input result object as it was, also of an object that
\* appears in more than one variant list.
C13_FuseQueryVariantsKeepsInputScores ==
    (qv_pc = "done" /\ qv_op.fn = "fuse_query_variants") =>
        /\ \A i \in DOMAIN qv_out : DOMAIN qv_out[i] = {"obj", "score"}
        /\ \A o \in DOMAIN qv_heap : qv_heap[o].score = qv_heap0[o].score

\* the input occurrences of object o's candidate, in reading order
Occurrences(o) ==
    SelectSeq(Flatten(results_by_variant),
              LAMBDA x : VariantHash(x) = VariantHash(o))

\* C20: with fusion method max_score each output candidate's score is the
\* highest raw score among its occurrences in the input lists, and among
\* occurrences with that score the first one read is the object kept.
C20_MaxScoreKeepsHighestRawScore ==
    (qv_pc = "done" /\ qv_op.method = "max_score") =>
        \A i \in DOMAIN qv_out :
            LET occ == Occurrences(qv_out[i].obj)
                raw == Scores(qv_heap0, occ)
                first == CHOOSE j \in DOMAIN occ :
                             /\ raw[j] = RMaxSeq(raw)
                             /\ \A l \in 1..(j - 1) : raw[l] # RMaxSeq(raw)
            IN  /\ qv_out[i].score = RMaxSeq(raw)
                /\ qv_out[i].obj = occ[first]

\* the contributions a weighted fusion with equal weights summing to 1 adds
\* up: one per input occurrence, weight times the normalized score
EqualWeightItems ==
    LET n == Len(results_by_variant)
        GroupItems(g) ==
            [i \in DOMAIN results_by_variant[g] |->
                [obj |-> results_by_variant[g][i],
                 hash |-> VariantHash(results_by_variant[g][i]),
                 val |-> RMul(Rat(1, n), normalized_variants[g][i])]]
    IN  Flatten([g \in DOMAIN results_by_variant |-> GroupItems(g)])

\* C21: in weighted fusion the weights applied sum to 1 (equal weights when
\* none are given), and each candidate's fused score is the sum, over its
\* occurrences in the lists, of the list's weight times its normalized score
\* there; a candidate found in one list only gets that list's contribution.
C21_WeightedScoreIsWeightedSumWithUnitWeights ==
    (qv_pc = "done" /\ qv_op.method = "weighted" /\ qv_out # << >>) =>
        \A i \in DOMAIN qv_out :
            qv_out[i].score =
                TotalFor(EqualWeightItems, VariantHash(qv_out[i].obj))

\* the 1-based positions object o's candidate has in list g
PositionsIn(g, o) ==
    {i \in DOMAIN results_by_variant[g] :
        VariantHash(results_by_variant[g][i]) = VariantHash(o)}

\* the sums of one term 1/(rank + k) per list from list g on that holds the
\* candidate, for every position of the candidate that can count as its rank
RECURSIVE RankSums(_, _)
RankSums(o, g) ==
    IF g > Len(results_by_variant) THEN {RZero}
    ELSE IF PositionsIn(g, o) = {} THEN RankSums(o, g + 1)
    ELSE {RAdd(Rat(1, rank + RRF_K), rest) :
              rank \in PositionsIn(g, o), rest \in RankSums(o, g + 1)}

NoListRepeatsACandidate ==
    \A g \in DOMAIN results_by_variant :
        \A i, j \in DOMAIN results_by_variant[g] :
            VariantHash(results_by_variant[g][i])
                = VariantHash(results_by_variant[g][j]) => i = j

\* C22: in reciprocal rank fusion each candidate's score is the sum of
\* 1/(rank_i + k), k = 60, over exactly the lists in which it appears, rank_i
\* being its 1-based position in list i; a list without it adds nothing.
C22_RRFScoreIsOneTermPerList ==
    (qv_pc = "done" /\ qv_op.method = "rrf") =>
        \A i \in DOMAIN qv_out :
            qv_out[i].score \in RankSums(qv_out[i].obj, 1)

(***************************************************************************)
(* QueryExpansionService.generate_query_variants (utils/query_expansion.py) *)
(* and perform_query_expansion_retrieval (server.py).  A string is the      *)
(* sequence of its characters; an LLM response is the sequence of its       *)
(* lines.                                                                   *)
(***************************************************************************)
MAX_QUERY_VARIANTS == 3

\* str.strip(chars): characters of cs taken off both ends
RECURSIVE StripChars(_, _)
StripChars(str, cs) ==
    IF str = << >> THEN str
    ELSE IF Head(str) \in cs THEN StripChars(Tail(str), cs)
    ELSE IF str[Len(str)] \in cs
         THEN StripChars(SubSeq(str, 1, Len(str) - 1), cs)
    ELSE str

Whitespace == {" ", "\t"}

\* str.lower() on the letters that occur
LowerChar(c) ==
    IF c = "A" THEN "a" ELSE IF c = "G" THEN "g" ELSE IF c = "V" THEN "v" ELSE c

Lower(str) == [i \in DOMAIN str |-> LowerChar(str[i])]

StartsWith(str, prefix) ==
    Len(str) >= Len(prefix) /\ SubSeq(str, 1, Len(prefix)) = prefix

MetaPrefixes ==
    { <<"g", "e", "n", "e", "r", "a", "t", "e">>,
      <<"a", "l", "t", "e", "r", "n", "a", "t", "i", "v", "e">>,
      <<"v", "a", "r", "i", "a", "n", "t">> }

\* line.strip().strip('"').strip("'").strip()
CleanLine(line) ==
    StripChars(StripChars(StripChars(StripChars(line, Whitespace), {"\""}),
                          {"'"}), Whitespace)

RECURSIVE ParseLines(_, _, _)
ParseLines(lines, original_query, variants) ==
    IF lines = << >> THEN variants
    ELSE LET variant == CleanLine(Head(lines))
         IN  ParseLines(Tail(lines), original_query,
                 IF /\ variant # << >>
                    /\ variant # original_query
                    /\ Len(variant) > 5
                    /\ variant \notin Range(variants)
                    /\ \A prefix \in MetaPrefixes :
                           ~StartsWith(Lower(variant), prefix)
                 THEN Append(variants, variant) ELSE variants)

\* mutant: the parser returns every accepted line
_parse_variants_response_uncut(response_text, original_query, max_variants) ==
    ParseLines(response_text, original_query, << >>)

_parse_variants_response(response_text, original_query, max_variants) ==
    Take(ParseLines(response_text, original_query, << >>), max_variants)

\* mutant: failed calls are counted as queries but not as failures
_update_expansion_metrics_failures_uncounted(metrics, variants_count, expansion_time, success) ==
    LET successes == metrics.successful_expansions + (IF success THEN 1 ELSE 0)
        total == RAdd(metrics.total_expansion_time, expansion_time)
    IN  [metrics EXCEPT
            !.queries_expanded = @ + 1,
            !.variants_generated = @ + variants_count,
            !.total_expansion_time = total,
            !.successful_expansions = successes,
            !.average_expansion_time =
                IF successes > 0 THEN RDiv(total, RInt(successes)) ELSE @]

\* QueryExpansionService._update_expansion_metrics
_update_expansion_metrics(metrics, variants_count, expansion_time, success) ==
    LET successes == metrics.successful_expansions + (IF success THEN 1 ELSE 0)
        total == RAdd(metrics.total_expansion_time, expansion_time)
    IN  [metrics EXCEPT
            !.queries_expanded = @ + 1,
            !.variants_generated = @ + variants_count,
            !.total_expansion_time = total,
            !.successful_expansions = successes,
            !.failed_expansions = @ + (IF success THEN 0 ELSE 1),
            !.average_expansion_time =
                IF successes > 0 THEN RDiv(total, RInt(successes)) ELSE @]

\* reset_expansion_metrics: the global is rebound to a zeroed dict
reset_expansion_metrics == ZeroMetrics

\* mutant: the except clause lets the LLM client's exception go on
generate_query_variants_unguarded(original_query, llm, expansion_time, metrics) ==
    IF llm.raises
    THEN [raised |-> TRUE, variants |-> << >>, metrics |-> metrics]
    ELSE LET variants == _parse_variants_response(llm.lines, original_query,
                                                  MAX_QUERY_VARIANTS)
         IN  [raised |-> FALSE, variants |-> variants,
              metrics |-> _update_expansion_metrics(
                              metrics, Len(variants), expansion_time, TRUE)]

\* try: ainvoke, _parse_variants_response, _update_expansion_metrics(
\* len(variants), expansion_time, success=True); except Exception:
\* _update_expansion_metrics(0, 0, success=False), return [].
\* expansion_time is what the clock measured around the LLM call.
generate_query_variants(original_query, llm, expansion_time, metrics) ==
    IF llm.raises
    THEN [raised |-> FALSE, variants |-> << >>,
          metrics |-> _update_expansion_metrics(metrics, 0, RZero, FALSE)]
    ELSE LET variants == _parse_variants_response(llm.lines, original_query,
                                                  MAX_QUERY_VARIANTS)
         IN  [raised |-> FALSE, variants |-> variants,
              metrics |-> _update_expansion_metrics(
                              metrics, Len(variants), expansion_time, TRUE)]

\* elapsed time of the LLM call, in seconds
ExpansionTimes == {RInt(1), RInt(2)}

OriginalQuery == <<"t", "a", "x", "e", "s", "?">>

\* what the LLM client does: it raises, or it answers with these lines
LLMResponses ==
    { [raises |-> TRUE, lines |-> << >>],
      [raises |-> FALSE, lines |-> << << >> >>],
      [raises |-> FALSE,
       lines |-> << <<"V", "a", "r", "i", "a", "n", "t", " ", "1", ":">>,
                    <<" ", "\"", "t", "a", "x", "e", "s", "?", "\"", " ">>,
                    <<" ", "l", "e", "v", "y", "?", " ">> >>],
      [raises |-> FALSE,
       lines |-> << <<"A", "l", "t", "e", "r", "n", "a", "t", "i", "v", "e", " ", "q", "u", "e", "r", "i", "e", "s">>,
                    <<"d", "u", "t", "i", "e", "s", "?">>,
                    <<"'", "d", "u", "t", "i", "e", "s", "?", "'">> >>] }

ExpansionCollections == {1, 2}

\* what perform_hybrid_search finds in one collection for one query:
\* <<[chunk, score]>>, best first
HitMenu ==
    { << >>,
      <<[chunk |-> 1, score |-> 2]>>,
      <<[chunk |-> 1, score |-> 2], [chunk |-> 2, score |-> 1]>> }

InitExpansion ==
    /\ \E method \in VariantMethods, lim \in 1..MaxLimit,
          vectorizer \in [ExpansionCollections -> BOOLEAN],
          stored \in [ExpansionCollections -> BOOLEAN],
          embedding_ok \in BOOLEAN :
          qe_env = [EXPANSION_FUSION_METHOD |-> method, limit |-> lim,
                    vectorizer |-> vectorizer, stored |-> stored,
                    embedding_ok |-> embedding_ok]
    /\ qe_pc = "embed"
    /\ llm_response = << >>
    /\ query_variants = << >>
    /\ qe_heap = << >>
    /\ results_by_query = << >>
    /\ top_results = << >>
    /\ qe_ret = << >>
    /\ gv_call = NoCall
    /\ expansion_metrics = ZeroMetrics
    /\ FusionIdle /\ HybridIdle /\ RerankIdle /\ RetrieveIdle /\ VariantsIdle

\* query_embedding = embedding_model.embed_query(query)
QeEmbedQuery ==
    /\ qe_pc = "embed"
    /\ IF qe_env.embedding_ok
       THEN /\ qe_pc' = "variants"
            /\ UNCHANGED qe_ret
       ELSE /\ qe_pc' = "returned"
            /\ qe_ret' = Reraised(EmbeddingError)
    /\ UNCHANGED <<qe_env, llm_response, query_variants, qe_heap,
                   results_by_query, top_results, gv_call, expansion_metrics>>
    /\ UNCHANGED outsideExpansion

\* query_variants = await query_expansion_service.generate_query_variants(query)
QeGenerateVariants ==
    /\ qe_pc = "variants"
    /\ \E llm \in LLMResponses, expansion_time \in ExpansionTimes :
          /\ llm_response' = llm
          /\ LET g == generate_query_variants(OriginalQuery, llm,
                                              expansion_time,
                                              expansion_metrics)
             IN  /\ expansion_metrics' = g.metrics
                 /\ IF g.raised
                    THEN /\ qe_pc' = "returned"
                         /\ qe_ret' = Reraised("llm call failed")
                         /\ UNCHANGED query_variants
                    ELSE /\ qe_pc' = "search"
                         /\ query_variants' = g.variants
                         /\ UNCHANGED qe_ret
    /\ UNCHANGED <<qe_env, qe_heap, results_by_query, top_results, gv_call>>
    /\ UNCHANGED outsideExpansion

all_queries == <<OriginalQuery>> \o query_variants

\* one round of "for query_text in all_queries": every collection that has
\* a vectorizer is searched and its results, cut to limit, are appended.
\* The dense search of a collection finds the nearest of the user's chunks,
\* so it finds something exactly when the user has chunks stored there.
QeSearchQuery ==
    /\ qe_pc = "search"
    /\ Len(results_by_query) < Len(all_queries)
    /\ \E found \in [ExpansionCollections -> HitMenu] :
          /\ \A cid \in ExpansionCollections :
                 (found[cid] # << >>)
                     <=> (qe_env.vectorizer[cid] /\ qe_env.stored[cid])
          /\ LET Results(cid) ==
                     LET hits == Take(found[cid], qe_env.limit)
                     IN  [i \in DOMAIN hits |->
                             NewPagedResult(cid, 1, hits[i].chunk, 1,
                                            RInt(hits[i].score))]
                 fresh == Results(1) \o Results(2)
                 query_results == [i \in DOMAIN fresh |-> Len(qe_heap) + i]
             IN  /\ qe_heap' = qe_heap \o fresh
                 /\ results_by_query' = Append(results_by_query, query_results)
    /\ UNCHANGED <<qe_env, qe_pc, llm_response, query_variants, top_results,
                   qe_ret, gv_call, expansion_metrics>>
    /\ UNCHANGED outsideExpansion

\* fused_results = ScoreFusionService.apply_fusion(results_by_query);
\* return format_results_response(the first limit results)
QeFuseAndReturn ==
    /\ qe_pc = "search"
    /\ Len(results_by_query) = Len(all_queries)
    /\ LET fused_results ==
               apply_fusion(qe_heap, results_by_query,
                            qe_env.EXPANSION_FUSION_METHOD, << >>)
           top == Take(Objs(fused_results), qe_env.limit)
           response == format_results_response(
                           [i \in DOMAIN top |->
                               Result(qe_heap[top[i]].score, TRUE)])
       IN  /\ top_results' = top
           /\ qe_ret' = IF response.raises THEN Reraised(PayloadError)
                        ELSE Returned(response.text)
    /\ qe_pc' = "returned"
    /\ expansion_metrics' =
           CountFusionMethod(expansion_metrics, qe_env.EXPANSION_FUSION_METHOD)
    /\ UNCHANGED <<qe_env, llm_response, query_variants, qe_heap,
                   results_by_query, gv_call>>
    /\ UNCHANGED outsideExpansion

NextExpansion ==
    \/ QeEmbedQuery
    \/ QeGenerateVariants
    \/ QeSearchQuery
    \/ QeFuseAndReturn

SpecExpansion == InitExpansion /\ [][NextExpansion]_vars

\* no line of the response is a usable variant
NoValidVariant(lines) ==
    \A i \in DOMAIN lines :
        LET variant == CleanLine(lines[i])
        IN  \/ Len(variant) <= 5
            \/ variant = OriginalQuery
            \/ \E prefix \in MetaPrefixes : StartsWith(Lower(variant), prefix)

\* generate_query_variants has been called and the LLM call failed or its
\* response held no usable variant
VariantGenerationFailed ==
    /\ qe_pc \in {"search", "returned"}
    /\ qe_env.embedding_ok
    /\ llm_response.raises \/ NoValidVariant(llm_response.lines)

OriginalQueryHashes ==
    {create_chunk_hash(qe_heap[o]) : o \in Range(results_by_query[1])}

\* C16: when the LLM call for query variants fails or its response yields no
\* valid variant, generate_query_variants returns an empty list and does not
\* raise, and the expansion retrieval returns the results of the search for
\* the original query: only that query is searched, and the passages it
\* found are returned, up to limit of them.
C16_NoVariantsStillReturnsOriginalResults ==
    VariantGenerationFailed =>
        /\ query_variants = << >>
        /\ qe_pc = "returned" =>
               /\ ~qe_ret.raised
               /\ Len(results_by_query) = 1
               /\ Range(top_results) \subseteq Range(results_by_query[1])
               /\ Len(top_results) =
                      Min2(qe_env.limit, Cardinality(OriginalQueryHashes))
               /\ \A i, j \in DOMAIN top_results :
                      i # j => create_chunk_hash(qe_heap[top_results[i]])
                                   # create_chunk_hash(qe_heap[top_results[j]])
               /\ (qe_ret.text = NoneFound) <=> (results_by_query[1] = << >>)

C16_Witness ==
    /\ VariantGenerationFailed
    /\ qe_pc = "returned"
    /\ llm_response.raises
    /\ ~qe_ret.raised
    /\ Len(top_results) = 2
    /\ IsFormatted(qe_ret.text)

(***************************************************************************)
(* QueryExpansionService._parse_variants_response on its own: the response *)
(* text is given as its lines (response_text.strip().split('\n')), each    *)
(* drawn from lines an LLM answers with: an empty line, a heading, the      *)
(* original query in quotes, a short word, and variants plain and quoted.   *)
(***************************************************************************)
MaxLines == 3

LineMenu ==
    { << >>,
      <<"V", "a", "r", "i", "a", "n", "t", " ", "1", ":">>,
      <<" ", "\"", "t", "a", "x", "e", "s", "?", "\"", " ">>,
      <<" ", "l", "e", "v", "y", "?", " ">>,
      <<"d", "u", "t", "i", "e", "s", "?">>,
      <<"'", "d", "u", "t", "i", "e", "s", "?", "'">>,
      <<"t", "a", "r", "i", "f", "f", "s", "?">>,
      <<"e", "x", "c", "i", "s", "e", "s", "?">> }

ResponseTexts == UNION { [1..n -> LineMenu] : n \in 1..MaxLines }

InitParse ==
    /\ \E response_text \in ResponseTexts,
          max_variants \in 1..MAX_QUERY_VARIANTS :
          gv_call = [fn |-> "_parse_variants_response", pc |-> "called",
                     response_text |-> response_text,
                     original_query |-> OriginalQuery,
                     max_variants |-> max_variants, out |-> << >>]
    /\ expansion_metrics = ZeroMetrics
    /\ qe_env = << >>
    /\ qe_pc = "idle"
    /\ llm_response = << >>
    /\ query_variants = << >>
    /\ qe_heap = << >>
    /\ results_by_query = << >>
    /\ top_results = << >>
    /\ qe_ret = << >>
    /\ FusionIdle /\ HybridIdle /\ RerankIdle /\ RetrieveIdle /\ VariantsIdle

CallParseVariantsResponse ==
    /\ gv_call.fn = "_parse_variants_response"
    /\ gv_call.pc = "called"
    /\ gv_call' = [gv_call EXCEPT
                      !.pc = "returned",
                      !.out = _parse_variants_response(gv_call.response_text,
                                                       gv_call.original_query,
                                                       gv_call.max_variants)]
    /\ UNCHANGED <<qe_env, qe_pc, llm_response, query_variants, qe_heap,
                   results_by_query, top_results, qe_ret, expansion_metrics>>
    /\ UNCHANGED outsideExpansion

NextParse == CallParseVariantsResponse

SpecParse == InitParse /\ [][NextParse]_vars

ParseReturned ==
    gv_call.fn = "_parse_variants_response" /\ gv_call.pc = "returned"

\* C24: whatever the response text, _parse_variants_response returns at most
\* max_variants strings, each the cleaned form of a response line and in the
\* order of those lines, no string twice, none equal to the original query,
\* each longer than 5 characters, and none starting, in any letter case,
\* with "generate", "alternative" or "variant".
C24_ParsedVariantsAreCleanDistinctAndCut ==
    ParseReturned =>
        LET out == gv_call.out
            text == gv_call.response_text
        IN  /\ Len(out) <= gv_call.max_variants
            /\ \E at \in [DOMAIN out -> DOMAIN text] :
                   /\ \A i, j \in DOMAIN out : i < j => at[i] < at[j]
                   /\ \A i \in DOMAIN out : out[i] = CleanLine(text[at[i]])
            /\ \A i, j \in DOMAIN out : out[i] = out[j] => i = j
            /\ \A i \in DOMAIN out :
                   /\ out[i] # gv_call.original_query
                   /\ Len(out[i]) > 5
                   /\ \A prefix \in MetaPrefixes :
                          ~StartsWith(Lower(out[i]), prefix)

\* a response with a repeated variant and more acceptable lines than
\* max_variants has been parsed
C24_Witness ==
    /\ ParseReturned
    /\ Len(gv_call.out) = gv_call.max_variants
    /\ Len(ParseLines(gv_call.response_text, gv_call.original_query, << >>))
           > gv_call.max_variants
    /\ \E i, j \in DOMAIN gv_call.response_text :
           /\ i < j
           /\ CleanLine(gv_call.response_text[i])
                  = CleanLine(gv_call.response_text[j])
           /\ CleanLine(gv_call.response_text[i]) \in Range(gv_call.out)

(***************************************************************************)
(* The expansion metrics under direct calls of generate_query_variants and *)
(* reset_expansion_metrics.                                                 *)
(***************************************************************************)
MaxCalls == 3

InitMetrics ==
    /\ ExpansionIdle
    /\ FusionIdle /\ HybridIdle /\ RerankIdle /\ RetrieveIdle /\ VariantsIdle

\* await query_expansion_service.generate_query_variants(query)
GenerateQueryVariants ==
    /\ expansion_metrics.queries_expanded < MaxCalls
    /\ \E llm \in LLMResponses, expansion_time \in ExpansionTimes :
          LET g == generate_query_variants(OriginalQuery, llm, expansion_time,
                                           expansion_metrics)
          IN  /\ gv_call' = [fn |-> "generate_query_variants", llm |-> llm,
                             before |-> expansion_metrics,
                             raised |-> g.raised, out |-> g.variants]
              /\ expansion_metrics' = g.metrics
    /\ UNCHANGED <<qe_env, qe_pc, llm_response, query_variants, qe_heap,
                   results_by_query, top_results, qe_ret>>
    /\ UNCHANGED outsideExpansion

ResetExpansionMetrics ==
    /\ gv_call' = [fn |-> "reset_expansion_metrics",
                   before |-> expansion_metrics]
    /\ expansion_metrics' = reset_expansion_metrics
    /\ UNCHANGED <<qe_env, qe_pc, llm_response, query_variants, qe_heap,
                   results_by_query, top_results, qe_ret>>
    /\ UNCHANGED outsideExpansion

NextMetrics ==
    \/ GenerateQueryVariants
    \/ ResetExpansionMetrics

SpecMetrics == InitMetrics /\ [][NextMetrics]_vars

\* the last call was a generate_query_variants call whose LLM request failed
LastCallFailed ==
    gv_call.fn = "generate_query_variants" /\ gv_call.llm.raises

\* C30: after any sequence of generate_query_variants calls and metric
\* resets, queries_expanded = successful_expansions + failed_expansions, and
\* a failed call leaves variants_generated and total_expansion_time as they
\* were before it.
C30_MetricsCountEveryCallOnce ==
    /\ expansion_metrics.queries_expanded =
           expansion_metrics.successful_expansions
               + expansion_metrics.failed_expansions
    /\ LastCallFailed =>
           /\ expansion_metrics.variants_generated =
                  gv_call.before.variants_generated
           /\ expansion_metrics.total_expansion_time =
                  gv_call.before.total_expansion_time

\* a call failed after a successful call had produced variants
C30_Witness ==
    /\ LastCallFailed
    /\ expansion_metrics.failed_expansions >= 1
    /\ expansion_metrics.successful_expansions >= 1
    /\ gv_call.before.variants_generated >= 1

(***************************************************************************)
(* Claims about the queries a hybrid search sends to Qdrant.               *)
(***************************************************************************)
\* C25: every dense and sparse query a hybrid search sends for a collection
\* asks for exactly min(limit * 2, 50) results, so none asks for more
\* than 50.
C25_EveryQueryRequestsCappedOverfetch ==
    \A i \in DOMAIN queries :
        /\ queries[i].limit = Min2(limit * 2, SEARCH_LIMIT_CAP)
        /\ queries[i].limit <= SEARCH_LIMIT_CAP

\* the collection offers no sparse evidence before any query is sent
NoSparseVector(c) == ~backend[c].vectorizer \/ backend[c].query_terms = 0

SearchedCollections == { c \in DOMAIN task : task[c] = "done" }

\* C26: for a collection without a vectorizer, or a query whose sparse
\* vector has no non-zero entry, no sparse query is sent to the backend and
\* the search does not raise.
C26_NoSparseQueryWithoutSparseVector ==
    \A c \in SearchedCollections :
        NoSparseVector(c) =>
            /\ \A i \in DOMAIN queries :
                   ~(queries[i].collection = c /\ queries[i].using = "text_sparse")
            /\ hs_pc # "raised"

(***************************************************************************)
(* Fusion across query variants on the first chunks of a document.         *)
(* upsert_chunks numbers the chunks of a document from 0 and the pages of  *)
(* a document are numbered from 1.                                         *)
(***************************************************************************)
FirstChunks == {0, 1}

FirstPage == 1

InitVariantsFirstChunks ==
    /\ \E n \in 0..NObj :
       \E chunk \in [1..n -> FirstChunks] :
       \E score \in [1..n -> VariantScores] :
       \E place \in [1..n -> VariantPlaces] :
          /\ qv_heap = [o \in 1..n |->
                           NewPagedResult(o, 1, chunk[o], FirstPage, score[o])]
          /\ results_by_variant =
                 <<VariantList(place, "first"), VariantList(place, "second")>>
    /\ qv_heap0 = qv_heap
    /\ qv_pc = "ready"
    /\ qv_op = [fn |-> "none", method |-> "none"]
    /\ normalized_variants = << >>
    /\ qv_out = << >>
    /\ FusionIdle /\ HybridIdle /\ RerankIdle /\ RetrieveIdle
    /\ ExpansionIdle

SpecVariantsFirstChunks == InitVariantsFirstChunks /\ [][NextVariants]_vars

\* (document_id, chunk_id) of the results handed to the fusion
InputChunks ==
    { <<qv_heap0[o].doc, qv_heap0[o].chunk>> :
          o \in Range(Flatten(results_by_variant)) }

OutputChunks ==
    { <<qv_heap[qv_out[i].obj].doc, qv_heap[qv_out[i].obj].chunk>> :
          i \in DOMAIN qv_out }

\* C27: results whose payload has a chunk_id, 0 included, are keyed by
\* document_id and chunk_id, so results of one document with different
\* chunk_ids are never merged: every (document, chunk) among the inputs of a
\* fusion is among its outputs.
C27_DifferentChunksAreNeverMerged ==
    qv_pc = "done" => OutputChunks = InputChunks

(***************************************************************************)
(* Claims about collections that offer no sparse evidence.                 *)
(***************************************************************************)
\* the collections of the request that the first query found something in
ContributingCollections ==
    { qe_heap[o].coll : o \in Range(results_by_query[1]) }

\* C28: a collection without sparse evidence (no vectorizer, an empty
\* sparse vector, or no sparse hit) still contributes its dense results and
\* raises no error: in the expansion retrieval every collection that holds
\* chunks of the user contributes to the results of the original query,
\* whether or not it has a vectorizer.
C28_NoSparseEvidenceStillContributesDense ==
    (qe_pc \in {"search", "returned"} /\ Len(results_by_query) >= 1) =>
        \A cid \in ExpansionCollections :
            (qe_env.stored[cid] /\ ~qe_env.vectorizer[cid])
                => cid \in ContributingCollections

(***************************************************************************)
(* Claims about the scores the reranker assigns.                           *)
(***************************************************************************)
RECURSIVE Pow10(_)
Pow10(e) == IF e = 0 THEN 1 ELSE 10 * Pow10(e - 1)

DigitPositions(text) == { i \in DOMAIN text : IsDigit(text[i]) }

\* the first integer written in the text: its first run of decimal digits,
\* read as a number
FirstInteger(text) ==
    LET first == CHOOSE i \in DigitPositions(text) :
                     \A j \in DigitPositions(text) : i <= j
        last == CHOOSE i \in first..Len(text) :
                    /\ \A j \in first..i : IsDigit(text[j])
                    /\ i = Len(text) \/ ~IsDigit(text[i + 1])
        Value[i \in first..last] ==
            DigitValue[text[i]] * Pow10(last - i)
                + (IF i = last THEN 0 ELSE Value[i + 1])
    IN  Value[first]

\* the score the reranker is to give for one outcome of the LLM call
ExpectedScore(outcome) ==
    IF outcome.raises \/ DigitPositions(outcome.content) = {} THEN 50
    ELSE Min2(100, FirstInteger(outcome.content))

\* C29: every score the reranker assigns to a candidate is an integer from 0
\* to 100: the first integer in the LLM response, cut to that range, or 50
\* when the response holds no integer or scoring the candidate raised.
C29_ScoresAreClampedFirstIntegerOrFifty ==
    \A j \in DOMAIN scored_results :
        LET entry == batch_log[BatchOf(j)]
            score == scored_results[j].score
        IN  /\ score \in 0..100
            /\ entry.timed_out => score = 50
            /\ ~entry.timed_out =>
                   score = ExpectedScore(entry.outcomes[PlaceInBatch(j)])

\* a number above 100, a response without a number and a failed call have
\* all been scored
C29_Witness ==
    \E a, b, c \in DOMAIN scored_results :
        /\ ~batch_log[BatchOf(a)].timed_out
        /\ ~batch_log[BatchOf(b)].timed_out
        /\ ~batch_log[BatchOf(c)].timed_out
        /\ LET oa == batch_log[BatchOf(a)].outcomes[PlaceInBatch(a)]
               ob == batch_log[BatchOf(b)].outcomes[PlaceInBatch(b)]
               oc == batch_log[BatchOf(c)].outcomes[PlaceInBatch(c)]
           IN  /\ ~oa.raises /\ DigitPositions(oa.content) # {}
               /\ FirstInteger(oa.content) > 100
               /\ scored_results[a].score = 100
               /\ ~ob.raises /\ DigitPositions(ob.content) = {}
               /\ scored_results[b].score = 50
               /\ oc.raises
               /\ scored_results[c].score = 50

=============================================================================
